---- MODULE Spec2Model ----
(***************************************************************************)
(* The agent orchestration loop of the HMDA data-analysis assistant:       *)
(* PythonChatbot (Pages/backend.py) driving the graph                      *)
(*     agent --route_to_tools--> tools | end,   tools --> agent            *)
(* whose nodes are call_model and call_tools (Pages/graph/nodes.py).       *)
(*                                                                         *)
(* A text is a sequence of tokens; a token is a string that the code       *)
(* treats as a unit (a marker such as "Thought:", a fence, one statement   *)
(* of generated code, a run of free text).  Substring tests and split()    *)
(* are computed on the token sequence.                                     *)
(*                                                                         *)
(* The language model, the REPL and the graph runtime are libraries: the   *)
(* model draws the model's reply from a set of replies, the REPL's result  *)
(* from the outcomes run() can have, and follows the runtime's rules for   *)
(* conditional edges and for the recursion limit.                          *)
(***************************************************************************)
EXTENDS Integers, Sequences, FiniteSets, TLC

VARIABLES
    chat_history,          \* PythonChatbot.chat_history
    output_paths,          \* PythonChatbot.output_paths: key -> [pickle, html]
    intermediate_outputs,  \* PythonChatbot.intermediate_outputs
    state,                 \* the graph state of the running (or last) turn
    starting_paths,        \* local of user_sent_message
    pc,                    \* "idle", or the node the graph runs next, or "exit"
    steps,                 \* supersteps the graph has run in this turn
    route,                 \* what route_to_tools returned last
    outcome,               \* of the last user_sent_message call
    exc,                   \* the exception that call left with, if any
    artifacts,             \* files under images/plotly_figures
    last_step,             \* the step taken last
    tool_trace,            \* what the last call_tools did
    pre,                   \* the session as it was when the call began
    model_calls,           \* call_model invocations in this turn
    tool_calls,            \* call_tools invocations in this turn
    turns,                 \* user_sent_message calls so far
    budget,                \* code replies the model may still choose freely
    free,                  \* whether the last reply was chosen freely
    a_data,                \* analyze(data, data_type): the value it is called on
    a_hint,                \* its data_type argument, "none" for None
    a_pc,                  \* "idle", "call" before the call, "done" after it
    a_raised,              \* whether the call raised to its caller
    a_result,              \* the Analysis Result it returned
    a_data0,               \* the value as it was before the first call
    a_first,               \* what the first of two calls raised and returned
    c_input_data,          \* the descriptors uploaded: state["input_data"]
    c_tools,               \* the catalog of the running code-execution step
    c_ret,                 \* what the last constructor or catalog call left
    c_files,               \* files under images/plotly_figures
    c_uuid,                \* uuid4 draws of the process so far
    c_handles,             \* filenames the chart builders returned, in order
    c_calls,               \* constructor and catalog calls so far
    g_self,                \* the fields of the AutoGenBackend object
    g_ret,                 \* what the last call on the backend returned
    g_calls                \* calls on the backend so far

TurnVars == <<chat_history, output_paths, intermediate_outputs, state,
              starting_paths, pc, steps, route, outcome, exc, artifacts,
              last_step, tool_trace, pre, model_calls, tool_calls, turns,
              budget, free>>

AnalyzeVars == <<a_data, a_hint, a_pc, a_raised, a_result, a_data0, a_first>>

CatalogVars == <<c_input_data, c_tools, c_ret, c_files, c_uuid, c_handles,
                 c_calls>>

AutoGenVars == <<g_self, g_ret, g_calls>>

vars == <<TurnVars, AnalyzeVars, CatalogVars, AutoGenVars>>

---------------------------------------------------------------------------
(* Bounds of the model *)

MaxTurns == 2
MaxFreeReplies == 2

(* graph.invoke(input_state, {"recursion_limit": 25}) *)
RecursionLimit == 25

---------------------------------------------------------------------------
(* Texts *)

T_THOUGHT  == "Thought:"
T_CODE     == "Code:"
\* the opening fence of a python code block: three backquotes and "python"
T_PYFENCE  == "[fence]python"
\* a bare fence: three backquotes
T_FENCE    == "[fence]"
T_ANALYSIS == "Analysis:"
T_VIZ_MARK == "Visualization Analysis:"
T_RES_MARK == "Analysis Results:"
T_TEXT     == "text"

\* Python: sep in tok, for the tokens and separators of the model. The only
\* separator that occurs inside another token is the bare fence, inside the
\* python fence.
TokenHas(tok, sep) == tok = sep \/ (sep = T_FENCE /\ tok = T_PYFENCE)

\* what is left of a token after the separator is cut out of it
Residue(tok, sep) == IF tok = sep THEN <<>> ELSE <<"python">>

\* Python: sep in content
Contains(content, sep) == \E i \in 1..Len(content) : TokenHas(content[i], sep)

\* Python: content.split(sep), the list of parts, 1-based
RECURSIVE Split(_, _)
Split(content, sep) ==
    IF ~Contains(content, sep) THEN <<content>>
    ELSE LET i == CHOOSE k \in 1..Len(content) :
                     /\ TokenHas(content[k], sep)
                     /\ \A j \in 1..(k - 1) : ~TokenHas(content[j], sep)
             rest == Residue(content[i], sep) \o SubSeq(content, i + 1, Len(content))
         IN  <<SubSeq(content, 1, i - 1)>> \o Split(rest, sep)

Range(s) == {s[i] : i \in 1..Len(s)}

Last(s) == s[Len(s)]

HumanMessage(content) == [role |-> "human", content |-> content]
AIMessage(content)    == [role |-> "ai", content |-> content]

---------------------------------------------------------------------------
(* Generated code: one token per statement *)

S_COLS    == "tools.get_columns('hmda')"
S_HIST    == "tools.create_histogram('hmda', 'loan_amount')"
S_STATS   == "tools.calculate_summary_stats('hmda')"
S_COMMENT == "# done"
\* chart-builder calls that fail: a group_by column the table does not have,
\* and a dataset name other than 'hmda'
S_BOX_BAD   == "tools.create_box_plot('hmda', 'loan_amount', group_by='race')"
S_HIST_NODS == "tools.create_histogram('hmda_2022', 'loan_amount')"

\* 'get_columns' in last_stmt
MentionsGetColumns(stmt) == stmt = S_COLS

\* any(viz_func in last_stmt for viz_func in [...])
MentionsVizFunc(stmt) == stmt \in {S_HIST, S_BOX_BAD, S_HIST_NODS}

\* stmt.strip() and not stmt.strip().startswith('#')
IsRunnable(stmt) == stmt # "" /\ stmt # S_COMMENT

CodeReply(stmts) ==
    <<T_THOUGHT, T_TEXT, T_CODE, T_PYFENCE>> \o stmts \o <<T_FENCE, T_ANALYSIS>>

\* the replies the language model is drawn from
R_FINAL       == <<T_ANALYSIS, T_TEXT>>
R_COLS        == CodeReply(<<S_COLS>>)
R_HIST        == CodeReply(<<S_HIST>>)
R_COMMENT     == CodeReply(<<S_STATS, S_COMMENT>>)
R_BOX_BAD     == CodeReply(<<S_BOX_BAD>>)
R_HIST_NODS   == CodeReply(<<S_HIST_NODS>>)
R_NO_THOUGHT  == <<T_CODE, T_PYFENCE, S_HIST, T_FENCE>>
R_MARK        == <<T_RES_MARK, T_TEXT>>
R_VIZ_MARK    == <<T_VIZ_MARK, T_TEXT>>
R_MARK_CODE   == <<T_RES_MARK, T_TEXT, T_THOUGHT, T_TEXT, T_CODE, T_PYFENCE, S_COLS, T_FENCE>>

Replies == {R_FINAL, R_COLS, R_HIST, R_COMMENT, R_NO_THOUGHT, R_MARK,
            R_VIZ_MARK, R_MARK_CODE, R_BOX_BAD, R_HIST_NODS}

---------------------------------------------------------------------------
(* Datasets *)

D_GOOD    == [variable_name |-> "hmda_2022", data_path |-> "data/ok.csv"]
D_MISSING == [variable_name |-> "hmda_2021", data_path |-> "data/gone.csv"]
D_EMPTY   == [variable_name |-> "hmda_2020", data_path |-> "data/empty.csv"]

\* the files the data paths name: rows, no file, a header with no rows under
\* it, or a file of zero bytes
FileStatus(path) ==
    CASE path \in {"data/ok.csv", "data/one.csv", "data/text.csv",
                   "data/na.csv"}  -> "rows"
      [] path = "data/empty.csv" -> "empty"
      [] path = "data/blank.csv" -> "blank"
      [] OTHER                   -> "missing"

InputChoices == {<<>>, <<D_GOOD>>, <<D_MISSING>>, <<D_EMPTY>>, <<D_GOOD, D_MISSING>>}

ToolsInitWithoutEmptyCheck(input_data) ==
    IF input_data = <<>>
    THEN [ok |-> FALSE, error |-> <<"No input data provided. Please upload a dataset first.">>]
    ELSE LET data == input_data[1] IN
         IF data.data_path = "" \/ FileStatus(data.data_path) = "missing"
         THEN [ok |-> FALSE, error |-> <<"Invalid data path:", data.data_path>>]
         ELSE IF FileStatus(data.data_path) = "blank"
         THEN [ok |-> FALSE,
               error |-> <<"Error loading", data.data_path,
                           "No columns to parse from file">>]
         ELSE [ok |-> TRUE, error |-> <<>>]

\* DataAnalysisTools.__init__: whether a catalog is built from input_data, and
\* the ValueError it raises otherwise.  Only the first descriptor is read.
ToolsInit(input_data) ==
    IF input_data = <<>>
    THEN [ok |-> FALSE, error |-> <<"No input data provided. Please upload a dataset first.">>]
    ELSE LET data == input_data[1] IN
         IF data.data_path = "" \/ FileStatus(data.data_path) = "missing"
         THEN [ok |-> FALSE, error |-> <<"Invalid data path:", data.data_path>>]
         ELSE IF FileStatus(data.data_path) = "empty"
         THEN [ok |-> FALSE,
               error |-> <<"Error loading", data.data_path, "Dataset is empty">>]
         ELSE IF FileStatus(data.data_path) = "blank"
         THEN [ok |-> FALSE,
               error |-> <<"Error loading", data.data_path,
                           "No columns to parse from file">>]
         ELSE [ok |-> TRUE, error |-> <<>>]

\* DataAnalysisTools.get_columns('hmda') on the table of data/ok.csv
Columns == <<"loan_amount", "derived_race">>

\* uuid.uuid4() in _save_figure: a name no earlier call returned
FileName(i) == ToString(i) \o ".html"
FreshName(store) == FileName(Cardinality(store) + 1)

---------------------------------------------------------------------------
(* Router *)

\* the router, were it to consult the message count
RouteByCount(st) ==
    IF Len(st.messages) > 4 THEN "end"
    ELSE IF Contains(Last(st.messages).content, T_PYFENCE) THEN "tools"
    ELSE IF \/ Contains(Last(st.messages).content, T_VIZ_MARK)
            \/ Contains(Last(st.messages).content, T_RES_MARK) THEN "model"
    ELSE "end"

\* the router, were it to test the results markers before the code fence
RouteMarkerFirst(st) ==
    IF \/ Contains(Last(st.messages).content, T_VIZ_MARK)
       \/ Contains(Last(st.messages).content, T_RES_MARK) THEN "model"
    ELSE IF Contains(Last(st.messages).content, T_PYFENCE) THEN "tools"
    ELSE "end"

\* the router, were it to send every reply without code back to the model
RouteNoEnd(st) ==
    IF Contains(Last(st.messages).content, T_PYFENCE) THEN "tools" ELSE "model"

\* route_to_tools (nodes.py lines 119-136)
route_to_tools(st) ==
    LET last_message == Last(st.messages) IN
    IF Contains(last_message.content, T_PYFENCE) THEN "tools"
    ELSE IF \/ Contains(last_message.content, T_VIZ_MARK)
            \/ Contains(last_message.content, T_RES_MARK) THEN "model"
    ELSE "end"

\* the path map, were the tools path to lead to the end node
PathMapToolsToEnd == [tools |-> "end", end |-> "end"]

\* the path map of add_conditional_edges('agent', route_to_tools, {...})
PathMap == [tools |-> "tools", end |-> "end"]

---------------------------------------------------------------------------
(* Output Interpreter (Pages/graph/analysis_agent.py).  A value is          *)
(*   a string            kind "str", its text;                              *)
(*   a chart handle pair kind "handle": the dict {figure, filename};        *)
(*   the column mapping  kind "columns": {available_columns, count};        *)
(*   another dict        kind "mapping", its keys (the values are plain     *)
(*                       objects, none of them a figure);                   *)
(*   a list or a tuple   kind "list", its elements;                         *)
(*   a pandas table or series, kind "dataframe" or "series";                *)
(*   anything else       kind "object" (None, a number, ...).               *)

V_OK == "Visualization created successfully."

StrValue(text)  == [kind |-> "str", text |-> text, filename |-> "", items |-> <<>>]
HandleValue(f)  == [kind |-> "handle", text |-> <<>>, filename |-> f, items |-> <<>>]
ColumnsValue    == [kind |-> "columns", text |-> Columns, filename |-> "", items |-> <<>>]
MappingValue(keys) ==
    [kind |-> "mapping", text |-> keys, filename |-> "", items |-> <<>>]
ListValue(elems) ==
    [kind |-> "list", text |-> <<>>, filename |-> "", items |-> elems]
NativeValue(kind) == [kind |-> kind, text |-> <<>>, filename |-> "", items |-> <<>>]

\* a chart handle whose figure has the given type of its first trace and the
\* given points: s is the x of a point and n its y
FigureHandle(plot_type, points, f) ==
    [kind |-> "handle", text |-> <<plot_type>>, filename |-> f, items |-> points]
Point(x, y) == [type |-> "int", n |-> y, s |-> x]

\* fig.data[0].type; the handles of HandleValue hold a histogram
PlotType(v) == IF v.text = <<>> THEN "histogram" ELSE v.text[1]

\* the elements of lists: an int, a str, or None
IntElem(n) == [type |-> "int", n |-> n, s |-> ""]
StrElem(s) == [type |-> "str", n |-> 0, s |-> s]
NoneElem   == [type |-> "NoneType", n |-> 0, s |-> ""]

\* isinstance(data, dict), and the keys of a dict
IsDict(v) == v.kind \in {"handle", "columns", "mapping"}
Keys(v) ==
    CASE v.kind = "handle"  -> <<"figure", "filename">>
      [] v.kind = "columns" -> <<"available_columns", "count">>
      [] OTHER              -> v.text

\* tokens of the texts the interpreter looks into
T_VE_OPEN  == "ValueError("
T_DQ       == "[dq]"
T_SQ       == "'"
T_CLOSE    == ")"
T_EXPECTED == "Expected one of"
T_RECEIVED == "but received"
T_PICKLE   == "figure.pickle"
M_VALUE    == "Value of 'x' is not the name of a column in 'data_frame'."

\* strings that start with "[" and end with "]", as one token each
LIT_ABC   == "['a','b','c']"
LIT_COLS  == "['loan_amount', 'derived_race']"
LIT_NUMS  == "[1, 2]"
LIT_EMPTY == "[]"
LIT_BAD   == "[1, 2)]"
\* strings that start with "{" and end with "}"
JSON_EMPTY == "{}"
JSON_BAD   == "{'a': 1}"

ListTokens == {LIT_ABC, LIT_COLS, LIT_NUMS, LIT_EMPTY, LIT_BAD}
JsonTokens == {JSON_EMPTY, JSON_BAD}

\* eval(text): whether it returns, and the list it returns
EvalOk(text) == Len(text) = 1 /\ text[1] \in ListTokens \ {LIT_BAD}
EvalList(text) ==
    CASE text[1] = LIT_ABC  -> <<StrElem("a"), StrElem("b"), StrElem("c")>>
      [] text[1] = LIT_COLS -> <<StrElem("loan_amount"), StrElem("derived_race")>>
      [] text[1] = LIT_NUMS -> <<IntElem(1), IntElem(2)>>
      [] OTHER              -> <<>>

\* json.loads(text) returns
JsonOk(text) == Len(text) = 1 /\ text[1] = JSON_EMPTY

\* data.startswith('ValueError'), data.startswith('ValueError("') and
\* data.startswith('Value')
StartsWithValueError(text) == text # <<>> /\ text[1] = T_VE_OPEN
StartsWithValueErrorDq(text) ==
    Len(text) >= 2 /\ text[1] = T_VE_OPEN /\ text[2] = T_DQ
StartsWithValue(text) == text # <<>> /\ text[1] \in {T_VE_OPEN, M_VALUE}

\* AnalysisAgent._determine_data_type (lines 80-109)
DetermineDataType(v) ==
    IF v.kind = "str"
    THEN IF (v.text # <<>> /\ Last(v.text) = T_PICKLE) \/ Contains(v.text, V_OK)
         THEN "visualization"
         ELSE IF StartsWithValueError(v.text) THEN "error"
         ELSE IF v.text # <<>> /\ v.text[1] \in ListTokens /\ Last(v.text) \in ListTokens
         THEN IF EvalOk(v.text) THEN "list" ELSE "generic"
         ELSE IF v.text # <<>> /\ v.text[1] \in JsonTokens /\ Last(v.text) \in JsonTokens
         THEN IF JsonOk(v.text) THEN "dict" ELSE "generic"
         ELSE "generic"
    ELSE IF v.kind = "dataframe" THEN "dataframe"
    ELSE IF v.kind = "series" THEN "series"
    ELSE IF IsDict(v) THEN "dict"
    ELSE IF v.kind = "list" THEN "list"
    ELSE "generic"

NoError == <<>>

\* a metric: a key of results["metrics"] and its value; the values no
\* statement of the program reads back are left as ELIDED
ELIDED == "[value]"
Metric(key, val) == [key |-> key, val |-> val]

\* what a summarizer does: it returns, having filled results, or it raises
Returned(results) == [raised |-> FALSE, results |-> results, error |-> NoError]
Raised(error) ==
    [raised |-> TRUE,
     results |-> [success |-> FALSE, data_type |-> "none", metrics |-> <<>>,
                  insights |-> <<>>, error |-> error],
     error |-> error]

\* results["metrics"].update(...) and results["insights"].extend(...)
With(results, metrics, insights) ==
    [results EXCEPT !.metrics = @ \o metrics, !.insights = @ \o insights]

\* error_msg[11:-2]: without "ValueError(" in front and two characters behind
Slice11(text) ==
    IF Len(text) >= 3 /\ text[Len(text) - 1] = T_DQ /\ Last(text) = T_CLOSE
    THEN SubSeq(text, 2, Len(text) - 2)
    ELSE SubSeq(text, 2, Len(text) - 1) \o <<"[cut]">>

\* AnalysisAgent._analyze_error (lines 111-136); len(error_msg) counts the
\* tokens of the text
AnalyzeError(v, results) ==
    IF v.kind # "str" THEN Raised(<<"object has no attribute 'startswith'">>)
    ELSE
    LET error_msg == IF StartsWithValueErrorDq(v.text) THEN Slice11(v.text)
                     ELSE v.text
        metrics == <<Metric("error_type",
                            IF StartsWithValue(error_msg) THEN "ValueError"
                            ELSE "Unknown"),
                     Metric("message_length", Len(error_msg))>>
        columns_str == Split(Split(error_msg, T_EXPECTED)[2], T_RECEIVED)[1]
    IN  IF Contains(error_msg, T_EXPECTED) /\ EvalOk(columns_str)
        THEN LET available_columns == EvalList(columns_str) IN
             Returned(With(results,
                 metrics \o <<Metric("available_columns", available_columns)>>,
                 <<"Error: Invalid column name specified",
                   "Available columns: " \o ToString(Len(available_columns)),
                   "Use one of the available columns listed in the metrics">>))
        ELSE Returned(With(results, metrics, <<"Error:">> \o error_msg))

\* sum(data)
RECURSIVE SumOf(_)
SumOf(elems) == IF elems = <<>> THEN 0 ELSE elems[1].n + SumOf(Tail(elems))

\* min(data) and max(data) of a list of ints that is not empty
MinOf(elems) ==
    CHOOSE m \in {e.n : e \in Range(elems)} : \A e \in Range(elems) : m <= e.n
MaxOf(elems) ==
    CHOOSE m \in {e.n : e \in Range(elems)} : \A e \in Range(elems) : m >= e.n

\* a number of the metrics of a chart: <<n>>, and <<>> for NaN
Number(n) == <<n>>

\* a sequence without its i-th element
Without(elems, i) == SubSeq(elems, 1, i - 1) \o SubSeq(elems, i + 1, Len(elems))

\* the values of y in ascending order
MinIndex(elems) ==
    CHOOSE k \in 1..Len(elems) : \A j \in 1..Len(elems) : elems[k].n <= elems[j].n

RECURSIVE Sorted(_)
SortedFrom(elems, i) == <<elems[i].n>> \o Sorted(Without(elems, i))
Sorted(elems) ==
    IF elems = <<>> THEN <<>> ELSE SortedFrom(elems, MinIndex(elems))

\* linear interpolation between the values around position lo + rem / 4 of
\* the sorted values, times four
Interpolate(sorted, lo, rem) ==
    Number(4 * sorted[lo + 1]
             + rem * (sorted[IF rem = 0 THEN lo + 1 ELSE lo + 2] - sorted[lo + 1]))

\* pd.Series(y).quantile(k / 4), times four, from the sorted values
Quantile4(sorted, k) ==
    IF sorted = <<>> THEN <<>>
    ELSE Interpolate(sorted, (k * (Len(sorted) - 1)) \div 4,
                     (k * (Len(sorted) - 1)) % 4)

\* lines 164-171: median, q1, q3 (four times their values), min and max of y
BoxMetricsOf(sorted) ==
    <<Metric("median", Quantile4(sorted, 2)), Metric("q1", Quantile4(sorted, 1)),
      Metric("q3", Quantile4(sorted, 3)),
      Metric("min", IF sorted = <<>> THEN <<>> ELSE Number(sorted[1])),
      Metric("max", IF sorted = <<>> THEN <<>> ELSE Number(Last(sorted)))>>

BoxMetrics(elems) == BoxMetricsOf(Sorted(elems))

\* sorted(zip(x, y), key=lambda x: x[1], reverse=True): by y, descending,
\* points of equal y in their order
MaxIndex(elems) ==
    CHOOSE k \in 1..Len(elems) :
        /\ \A j \in 1..Len(elems) : elems[k].n >= elems[j].n
        /\ \A j \in 1..(k - 1) : elems[j].n # elems[k].n

RECURSIVE SortedByValue(_)
SortedByValueFrom(elems, i) == <<elems[i]>> \o SortedByValue(Without(elems, i))
SortedByValue(elems) ==
    IF elems = <<>> THEN <<>> ELSE SortedByValueFrom(elems, MaxIndex(elems))

\* d[key] = val: a key stands where it came first and holds what came last
Put(dict, key, val) ==
    IF \E i \in 1..Len(dict) : dict[i].key = key
    THEN [i \in 1..Len(dict) |->
             IF dict[i].key = key THEN Metric(key, val) ELSE dict[i]]
    ELSE Append(dict, Metric(key, val))

\* dict(pairs)
RECURSIVE DictOf(_)
DictOf(pairs) ==
    IF pairs = <<>> THEN <<>>
    ELSE Put(DictOf(SubSeq(pairs, 1, Len(pairs) - 1)),
             Last(pairs).s, Last(pairs).n)

\* pairs[:5]
FirstFive(pairs) == SubSeq(pairs, 1, IF Len(pairs) < 5 THEN Len(pairs) ELSE 5)

\* lines 182-189: mean (as sum and count), max and min of y, and the five
\* categories of the highest y
BarMetrics(elems) ==
    <<Metric("mean", IF elems = <<>> THEN <<>> ELSE <<SumOf(elems), Len(elems)>>),
      Metric("max_value", IF elems = <<>> THEN <<>> ELSE Number(MaxOf(elems))),
      Metric("min_value", IF elems = <<>> THEN <<>> ELSE Number(MinOf(elems))),
      Metric("top_categories", DictOf(FirstFive(SortedByValue(elems))))>>

\* lines 156-159 and 184-199: the summary of a bar chart from its metrics
BarSummary(results, bar, filename) ==
    With(results,
         <<Metric("plot_type", "bar"), Metric("title", ELIDED)>> \o bar,
         <<"Plot Type: Bar Chart", "Analysis:", "- Average Value:",
           "- Highest Value:", "- Lowest Value:", "Top 5 Categories:">>
             \o [i \in 1..Len(bar[4].val) |-> bar[4].val[i].key]
             \o <<"View the interactive plot at: images/plotly_figures/"
                     \o filename>>)

\* AnalysisAgent._analyze_visualization (lines 138-214): an exception inside
\* is caught inside and put in results["error"]
AnalyzeVisualization(v, results) ==
    IF ~IsDict(v) \/ "figure" \notin Range(Keys(v))
    THEN IF IsDict(v) \/ v.kind \in {"dataframe", "series"}
         THEN Returned(With(results, <<>>,
                  <<"Visualization created successfully",
                    "The plot is available in HTML format",
                    "You can view the interactive plot at: images/plotly_figures/">>))
         ELSE \* data.get on a value that has no get
              Returned([results EXCEPT !.error = <<"object has no attribute 'get'">>])
    ELSE IF v.kind = "handle" /\ PlotType(v) = "box"
    THEN Returned(With(results,
             <<Metric("plot_type", "box"), Metric("title", ELIDED)>>
                 \o BoxMetrics(v.items),
             <<"Plot Type: Box Plot", "Distribution Analysis:", "- Median:",
               "- Q1 (25th percentile):", "- Q3 (75th percentile):", "- Range:",
               "View the interactive plot at: images/plotly_figures/" \o v.filename>>))
    ELSE IF v.kind = "handle" /\ PlotType(v) = "bar"
    THEN Returned(BarSummary(results, BarMetrics(v.items), v.filename))
    ELSE IF v.kind = "handle"
    THEN \* a histogram: the branch for the other plot types
         Returned(With(results,
             <<Metric("plot_type", "histogram"), Metric("title", ELIDED)>>,
             <<"Plot Type: histogram", "Title:",
               "The visualization has been created successfully and can be viewed in the browser",
               "View the interactive plot at: images/plotly_figures/" \o v.filename>>))
    ELSE \* data['figure'] is no figure: fig.data
         Returned([results EXCEPT !.error = <<"object has no attribute 'data'">>])

\* AnalysisAgent._analyze_dataframe (lines 216-234)
AnalyzeDataframe(v, results) ==
    IF v.kind # "dataframe" THEN Raised(<<"object has no attribute 'columns'">>)
    ELSE Returned(With(results,
             <<Metric("shape", ELIDED), Metric("columns", Columns),
               Metric("dtypes", ELIDED), Metric("missing", ELIDED),
               Metric("numeric_summary", ELIDED)>>,
             <<"DataFrame with rows and columns", "Numeric columns:",
               "Missing values:">>))

\* AnalysisAgent._analyze_series (lines 236-256)
AnalyzeSeries(v, results) ==
    IF v.kind # "series" THEN Raised(<<"object has no attribute 'dtype'">>)
    ELSE Returned(With(results,
             <<Metric("length", ELIDED), Metric("dtype", ELIDED),
               Metric("missing", ELIDED)>>,
             <<"Series of type with elements", "Missing values:">>))

\* AnalysisAgent._analyze_dict (lines 258-269)
AnalyzeDict(v, results) ==
    IF ~IsDict(v) /\ v.kind \notin {"dataframe", "series"}
    THEN Raised(<<"object has no attribute 'keys'">>)
    ELSE Returned(With(results,
             <<Metric("keys", IF IsDict(v) THEN Keys(v) ELSE ELIDED),
               Metric("length", IF IsDict(v) THEN Len(Keys(v)) ELSE ELIDED),
               Metric("value_types", ELIDED)>>,
             <<"Dictionary with keys", "Key types:">>))

\* AnalysisAgent._analyze_generic (lines 307-321)
AnalyzeGeneric(v, results) ==
    Returned(With(results,
        <<Metric("type", v.kind), Metric("string_length", ELIDED),
          Metric("dir_attributes", ELIDED), Metric("lines", ELIDED)>>,
        <<"Generic data of type", "Content length:", "Number of lines:">>))

\* lines 280-305 of _analyze_list, on the elements of data
ListStats(elems, results) ==
    LET base == With(results,
                    <<Metric("length", Len(elems)),
                      Metric("element_types", {e.type : e \in Range(elems)})>>,
                    <<"List with " \o ToString(Len(elems)) \o " elements",
                      "Element types:">>)
    IN
    IF \A e \in Range(elems) : e.type \in {"str", "int"}
    THEN IF \A e \in Range(elems) : e.type = "int"
         THEN IF elems = <<>>
              THEN \* min([]): true of all() of an empty list, twice
                   Raised(<<"min() arg is an empty sequence">>)
              ELSE Returned(With(base,
                       <<Metric("min", MinOf(elems)), Metric("max", MaxOf(elems)),
                         \* sum(data) / len(data), as the pair of the two
                         Metric("mean", <<SumOf(elems), Len(elems)>>)>>,
                       <<"Numeric range:">>))
         ELSE Returned(With(base,
                  <<Metric("unique_values", Cardinality(Range(elems)))>>,
                  <<"Unique values:">>))
    ELSE Returned(base)

\* AnalysisAgent._analyze_list (lines 271-305).  Iterating a dict gives its
\* keys, a table its column names, a series its values (numpy scalars, which
\* are neither str, int nor float).
AnalyzeList(v, results) ==
    CASE v.kind = "str" ->
            IF EvalOk(v.text) THEN ListStats(EvalList(v.text), results)
            ELSE AnalyzeGeneric(v, results)
      [] v.kind = "list" -> ListStats(v.items, results)
      [] IsDict(v) ->
            ListStats([i \in 1..Len(Keys(v)) |-> StrElem(Keys(v)[i])], results)
      [] v.kind = "dataframe" ->
            ListStats([i \in 1..Len(Columns) |-> StrElem(Columns[i])], results)
      [] v.kind = "series" -> ListStats(<<NoneElem, NoneElem>>, results)
      [] OTHER -> Raised(<<"object has no len()">>)

\* the dispatch of analyze on data_type (lines 51-65)
Summarize(v, data_type, results) ==
    CASE data_type = "visualization" -> AnalyzeVisualization(v, results)
      [] data_type = "error"         -> AnalyzeError(v, results)
      [] data_type = "dataframe"     -> AnalyzeDataframe(v, results)
      [] data_type = "series"        -> AnalyzeSeries(v, results)
      [] data_type = "dict"          -> AnalyzeDict(v, results)
      [] data_type = "list"          -> AnalyzeList(v, results)
      [] OTHER                       -> AnalyzeGeneric(v, results)

\* the except clause, were it to let the exception pass
CaughtNothing(summary) == summary

\* the except clause of analyze (lines 70-78)
Caught(summary) ==
    IF summary.raised
    THEN Returned([success |-> FALSE, data_type |-> "unknown", metrics |-> <<>>,
                   insights |-> <<>>, error |-> summary.error])
    ELSE summary

\* a call of analyze(data, data_type): whether it raises, and what it returns
AnalyzeCall(v, hint) ==
    LET data_type == IF hint = "none" THEN DetermineDataType(v) ELSE hint
        results == [success |-> TRUE, data_type |-> data_type, metrics |-> <<>>,
                    insights |-> <<>>, error |-> NoError]
    IN  Caught(Summarize(v, data_type, results))

\* AnalysisAgent.analyze (lines 18-78): the Analysis Result
Analyze(v, hint) == AnalyzeCall(v, hint).results

\* the argument after a call of analyze, were the summary of a chart to
\* consume the points of the figure
DataAfterAnalyzeDrained(v, hint) ==
    IF v.kind = "handle" /\ hint = "visualization"
    THEN [v EXCEPT !.items = <<>>]
    ELSE v

\* the argument after a call of analyze: no summarizer assigns to data or to
\* anything it holds
DataAfterAnalyze(v, hint) == v

\* json.dumps(analysis_result["metrics"], indent=2): the keys, in their order
JsonDumps(metrics) ==
    <<"{">> \o [i \in 1..Len(metrics) |-> metrics[i].key] \o <<"}">>

---------------------------------------------------------------------------
(* Code Execution Step *)

\* the parse, were it to require the code fence only
ParseFailsFenceOnly(content) == Len(Split(content, T_PYFENCE)) < 2

\* the IndexError of the two split(...)[1] of call_tools (lines 144-147)
ParseFails(content) ==
    \/ Len(Split(content, T_PYFENCE)) < 2
    \/ Len(Split(content, T_THOUGHT)) < 2

\* content.split(python fence)[1].split(fence)[0].strip()
CodeBlock(content) == Split(Split(content, T_PYFENCE)[2], T_FENCE)[1]

\* content.split("Thought:")[1].split("Code:")[0].strip()
Thought(content) ==
    IF Len(Split(content, T_THOUGHT)) < 2 THEN <<>>
    ELSE Split(Split(content, T_THOUGHT)[2], T_CODE)[1]

\* code_block.strip().split(newline): never an empty list
Statements(code_block) == IF code_block = <<>> THEN <<"">> ELSE code_block

PARSE_ERROR ==
    "Invalid message format. Expected 'Thought:' followed by 'Code:' with Python code block."
FAILED == "Code execution failed."

ABSENT == <<"[absent]">>

\* state["intermediate_outputs"], made an empty list when the key is not there
LogOf(st) ==
    IF "intermediate_outputs" \in st.keys THEN st.intermediate_outputs ELSE <<>>

\* the append, were it to overwrite the latest message
AppendMessageOverLast(st, content) ==
    [st EXCEPT !.messages = [@ EXCEPT ![Len(@)] = AIMessage(content)]]

\* the append, were it an insert at the front
AppendMessageAtFront(st, content) ==
    [st EXCEPT !.messages = <<AIMessage(content)>> \o @]

\* state["messages"].append(AIMessage(content=...))
AppendMessage(st, content) ==
    [st EXCEPT !.messages = Append(@, AIMessage(content))]

AppendRecord(st, rec) ==
    [st EXCEPT !.intermediate_outputs = Append(LogOf(st), rec),
               !.keys = @ \cup {"intermediate_outputs"}]

SuccessRecord(st, thought, code_block, output) ==
    [step |-> Len(LogOf(st)) + 1, thought |-> thought, code |-> code_block,
     raw_output |-> output, processed_output |-> output, error |-> ABSENT,
     success |-> TRUE]

FailureRecord(st, thought, code_block, error_msg) ==
    [step |-> Len(LogOf(st)) + 1, thought |-> thought, code |-> code_block,
     raw_output |-> ABSENT, processed_output |-> ABSENT, error |-> error_msg,
     success |-> FALSE]

\* the texts call_tools builds from an Analysis Result
ResultsBlock(result) ==
    <<T_RES_MARK>> \o result.insights \o <<"Metrics:">> \o JsonDumps(result.metrics)

ColumnsBlock == <<"Available Columns:", "Total columns: 2", "Columns:">> \o Columns

VizBlock(filename, result) ==
    <<V_OK, "View at images/plotly_figures/" \o filename>>
        \o (IF result.success THEN result.insights
            ELSE <<"Unable to analyze visualization.">>)

ErrorBlock(error_msg) ==
    LET result == Analyze(StrValue(error_msg), "none") IN
    IF result.success THEN <<"Code Execution Error:">> \o result.insights
    ELSE <<"Error:">> \o error_msg

\* lines 232-258: the value unless it is still a handle pair, interpreted with
\* no hint and rendered
Processed(output) ==
    IF output.kind = "handle" THEN output.text
    ELSE LET result == Analyze(output, "none") IN
         IF result.success
         THEN IF result.data_type = "dict" /\ output.kind = "columns"
              THEN ColumnsBlock
              ELSE ResultsBlock(result)
         ELSE <<"Analysis failed:">> \o result.error

\* what the REPL prints for a statement that returns normally
Stdout(stmt, filename) ==
    IF MentionsVizFunc(stmt) THEN <<"[Tools] Created visualization:", filename>>
    ELSE <<>>

\* the message of the exception a statement ends with: plotly's ValueError
\* for a column that is not there, the catalog's for a dataset that is not
E_COLUMN  == <<M_VALUE, T_EXPECTED, LIT_COLS, T_RECEIVED, ": race">>
E_DATASET == <<"Dataset hmda_2022 not found">>
E_OTHER   == <<"exception raised by the generated code">>
ExceptionText(stmt) ==
    CASE stmt = S_BOX_BAD   -> E_COLUMN
      [] stmt = S_HIST_NODS -> E_DATASET
      [] OTHER              -> E_OTHER

\* repr(e) of a ValueError with that message: in double quotes when the
\* message holds a single quote
Repr(error_msg) ==
    IF error_msg[1] = M_VALUE
    THEN <<T_VE_OPEN, T_DQ>> \o error_msg \o <<T_DQ, T_CLOSE>>
    ELSE <<T_VE_OPEN, T_SQ>> \o error_msg \o <<T_SQ, T_CLOSE>>

\* The outcomes repl.run(last_stmt) can have: "text" (the captured output is
\* returned), "handle" (the value of a chart builder, the case lines 204-229
\* are written for), "raise" (an exception reaches the except clause),
\* "errtext" (the exception is caught by the REPL, which returns its repr,
\* the case analysis_agent.py lines 85 and 114 are written for).
ReplOutcomes(stmt) ==
    IF stmt \in {S_BOX_BAD, S_HIST_NODS} THEN {"errtext", "raise"}
    ELSE IF MentionsVizFunc(stmt) THEN {"text", "handle", "raise"}
    ELSE {"text"}

Trace(parsed, catalog, executed, recorded) ==
    [parsed |-> parsed, catalog |-> catalog, executed |-> executed,
     recorded |-> recorded]

\* call_tools(state) with the REPL outcome repl and the next artifact name:
\* the state it returns, the artifacts it wrote and what it did
call_tools(st, repl, filename) ==
    LET content == Last(st.messages).content IN
    IF ParseFails(content)
    THEN [state |-> AppendMessage(st, <<FAILED, PARSE_ERROR>>), wrote |-> {},
          trace |-> Trace(FALSE, FALSE, FALSE, FALSE)]
    ELSE
    LET code_block == CodeBlock(content)
        thought    == Thought(content)
        tools      == ToolsInit(st.input_data)
    IN
    IF ~tools.ok
    THEN [state |-> AppendMessage(st,
                       <<FAILED, "Failed to initialize tools:">> \o tools.error),
          wrote |-> {}, trace |-> Trace(TRUE, FALSE, FALSE, FALSE)]
    ELSE
    LET statements == Statements(code_block)
        last_stmt  == Last(statements)
        executed   == \E i \in 1..Len(statements) : IsRunnable(statements[i])
        failure(error_msg) ==
            [state |-> AppendMessage(
                           AppendRecord(st, FailureRecord(st, thought, code_block, error_msg)),
                           ErrorBlock(error_msg)),
             wrote |-> {}, trace |-> Trace(TRUE, TRUE, executed, TRUE)]
        success(st1, output, wrote) ==
            LET shown == Processed(output) IN
            [state |-> AppendMessage(
                           AppendRecord(st1, SuccessRecord(st1, thought, code_block, shown)),
                           shown),
             wrote |-> wrote, trace |-> Trace(TRUE, TRUE, executed, TRUE)]
    IN
    IF ~IsRunnable(last_stmt)
    THEN \* output is read at line 232 without having been assigned
         failure(<<"local variable 'output' referenced before assignment">>)
    ELSE IF repl = "raise"
    THEN failure(ExceptionText(last_stmt))
    ELSE IF repl = "errtext"
    THEN success(st, StrValue(Repr(ExceptionText(last_stmt))), {})
    ELSE IF MentionsGetColumns(last_stmt)
    THEN success(st, ColumnsValue, {})
    ELSE IF MentionsVizFunc(last_stmt) /\ repl = "handle"
    THEN LET st1 == [st EXCEPT !.output_paths.html = Append(@, filename)]
             result == Analyze(HandleValue(filename), "visualization")
         IN  success(st1, StrValue(VizBlock(filename, result)), {filename})
    ELSE success(st, StrValue(Stdout(last_stmt, filename)),
                 IF MentionsVizFunc(last_stmt) THEN {filename} ELSE {})

---------------------------------------------------------------------------
(* Catalog (Pages/graph/tools.py) and dataset descriptors                   *)
(* (Pages/data_models.py).  A table is the sequence of its rows, a row has  *)
(* one cell per column, and a cell is an int, a str or NaN (a missing       *)
(* value).                                                                  *)

NaN == [type |-> "float", n |-> 0, s |-> "nan"]

Row(loan_amount, derived_race) ==
    [loan_amount |-> loan_amount, derived_race |-> derived_race]

\* pd.read_csv(path, low_memory=False) on the files that hold rows
ReadCsv(path) ==
    CASE path = "data/ok.csv" ->
            <<Row(IntElem(100), StrElem("A")), Row(IntElem(200), StrElem("B")),
              Row(IntElem(300), StrElem("A"))>>
      [] path = "data/one.csv" ->
            <<Row(IntElem(100), StrElem("A")), Row(IntElem(300), StrElem("A"))>>
      [] path = "data/text.csv" ->
            <<Row(StrElem("100"), StrElem("A")),
              Row(StrElem("Exempt"), StrElem("B"))>>
      [] path = "data/na.csv" ->
            <<Row(IntElem(100), NaN), Row(IntElem(200), NaN)>>
      [] OTHER -> <<>>

\* InputData.__post_init__: the ValueError it raises, if any
PostInitChecksNameOnly(variable_name, data_path) ==
    IF variable_name = ""
    THEN [ok |-> FALSE, error |-> <<"variable_name cannot be empty">>]
    ELSE [ok |-> TRUE, error |-> <<>>]

PostInit(variable_name, data_path) ==
    IF variable_name = ""
    THEN [ok |-> FALSE, error |-> <<"variable_name cannot be empty">>]
    ELSE IF data_path = ""
    THEN [ok |-> FALSE, error |-> <<"data_path cannot be empty">>]
    ELSE [ok |-> TRUE, error |-> <<>>]

\* InputData(variable_name, data_path)
InputData(variable_name, data_path) ==
    [variable_name |-> variable_name, data_path |-> data_path]

\* the name __init__ binds the table under
BindingNameFromDescriptor(data) == data.variable_name

BindingName(data) == "hmda"

\* the catalog __init__ leaves when it returns: self.dataframes
NoCatalog == [bound |-> FALSE, name |-> "", table |-> <<>>]

DataAnalysisTools(input_data) ==
    [bound |-> TRUE, name |-> BindingName(input_data[1]),
     table |-> ReadCsv(input_data[1].data_path)]

InDataframesAnyName(tools, data_var) == tools.bound

\* data_var in self.dataframes
InDataframes(tools, data_var) == tools.bound /\ data_var = tools.name

\* df[col]
Column(table, col) == [i \in 1..Len(table) |-> table[i][col]]

\* the dtype pandas gives a column: object when it holds a str, float64
\* when it holds a missing value, int64 otherwise
DType(cells) ==
    IF \E c \in Range(cells) : c.type = "str" THEN "object"
    ELSE IF \E c \in Range(cells) : c.type = "float" THEN "float64"
    ELSE "int64"

\* df.select_dtypes(include=['int64', 'float64']).columns
IsNumeric(table, col) == DType(Column(table, col)) # "object"
NumericColumns(table) == SelectSeq(Columns, LAMBDA col : IsNumeric(table, col))

\* pd.to_numeric(cell, errors='coerce')
ToNumeric(cell) ==
    IF cell.type # "str" THEN cell
    ELSE CASE cell.s = "100" -> IntElem(100)
           [] cell.s = "200" -> IntElem(200)
           [] OTHER          -> NaN

\* df[column] = pd.to_numeric(df[column], errors='coerce')
Coerce(table, column) ==
    [i \in 1..Len(table) |-> [table[i] EXCEPT ![column] = ToNumeric(@)]]

\* Series.describe() of a numeric column: count, mean (kept as sum and
\* count), min and max of the values that are not missing
DescribeColumn(cells) ==
    LET valid == SelectSeq(cells, LAMBDA c : c.type = "int") IN
    IF valid = <<>>
    THEN [count |-> 0, sum |-> NaN, min |-> NaN, max |-> NaN]
    ELSE [count |-> Len(valid), sum |-> IntElem(SumOf(valid)),
          min |-> IntElem(MinOf(valid)), max |-> IntElem(MaxOf(valid))]

\* df[columns].describe().to_dict()
Describe(table, columns) ==
    [col \in Range(columns) |-> DescribeColumn(Column(table, col))]

\* df[group_by].unique(): the values in order of first appearance, the
\* missing value among them
RECURSIVE Unique(_)
Unique(cells) ==
    IF cells = <<>> THEN <<>>
    ELSE LET rest == Unique(SubSeq(cells, 1, Len(cells) - 1)) IN
         IF Last(cells) \in Range(rest) THEN rest ELSE Append(rest, Last(cells))

\* df[df[group_by] == group_val]: NaN == NaN is False
GroupRows(table, group_by, group_val) ==
    SelectSeq(table, LAMBDA row : row[group_by] = group_val
                                    /\ group_val.type # "float")

\* str(group_val) for a value of a column of the given dtype
Str(group_val, dtype) ==
    CASE group_val.type = "str"   -> group_val.s
      [] group_val.type = "float" -> "nan"
      [] dtype = "float64"        -> ToString(group_val.n) \o ".0"
      [] OTHER                    -> ToString(group_val.n)

\* the loop of calculate_summary_stats: a later value with the same key
\* replaces the entry of an earlier one
GroupedStats(table, columns, group_by) ==
    LET cells  == Column(table, group_by)
        values == Unique(cells)
        key(i) == Str(values[i], DType(cells))
        last(k) == CHOOSE i \in 1..Len(values) :
                       /\ key(i) = k
                       /\ \A j \in 1..Len(values) : key(j) = k => j <= i
    IN  [k \in {key(i) : i \in 1..Len(values)} |->
            Describe(GroupRows(table, group_by, values[last(k)]), columns)]

---------------------------------------------------------------------------
(* Turn Controller *)

NoPaths == [pickle |-> {}, html |-> {}]

EmptyMap == [k \in {} |-> NoPaths]

EmptyState ==
    [messages |-> <<>>, output_paths |-> [pickle |-> <<>>, html |-> <<>>],
     input_data |-> <<>>, intermediate_outputs |-> <<>>, keys |-> {}]

NoTrace == Trace(FALSE, FALSE, FALSE, FALSE)

\* list(a set): the elements in the order the set yields them
RECURSIVE SetToSeq(_)
SetToSeq(S) ==
    IF S = {} THEN <<>>
    ELSE LET x == CHOOSE y \in S : TRUE IN <<x>> \o SetToSeq(S \ {x})

\* set(sum([paths.get(category, []) for paths in self.output_paths.values()], []))
Accumulated(paths, category) == UNION {paths[k][category] : k \in DOMAIN paths}

\* the delta, were it the running union
NewPathsRunningUnion(result_paths, starting) ==
    [pickle |-> Range(result_paths.pickle), html |-> Range(result_paths.html)]

\* backend.py lines 63-66: set(result[...]) - starting_paths[...]
NewPaths(result_paths, starting) ==
    [pickle |-> Range(result_paths.pickle) \ starting.pickle,
     html   |-> Range(result_paths.html) \ starting.html]

\* the key, were it the length of the history
DeltaKeyIsLength(history) == Len(history)

\* backend.py line 67: len(self.chat_history) - 1, the index of the last message
DeltaKey(history) == Len(history) - 1

\* the store, were it an assignment of a new mapping
StoreReplacing(paths, key, value) == [k \in {key} |-> value]

\* self.output_paths[key] = value
Store(paths, key, value) ==
    [k \in DOMAIN paths \cup {key} |-> IF k = key THEN value ELSE paths[k]]

Session == [chat_history |-> chat_history, output_paths |-> output_paths,
            intermediate_outputs |-> intermediate_outputs]

---------------------------------------------------------------------------
(* AutoGenBackend (Pages/graph/autogen_backend.py).  The object is the      *)
(* record of its fields; an agent, group-chat or catalog handle is "None"   *)
(* or "set".  create_agents, create_group_chat and manager.run are library  *)
(* calls: the model draws their outcome.                                    *)

MaxQueries == 2
MaxBackendCalls == 5

\* reset(): the fields it assigns (lines 13-25)
ResetFields ==
    [chat_history |-> <<>>, intermediate_outputs |-> <<>>,
     output_paths |-> EmptyMap, tools |-> "None", group_chat |-> "None",
     manager |-> "None", planner |-> "None", executor |-> "None",
     analyzer |-> "None", user_proxy |-> "None", is_initialized |-> FALSE,
     group_chat_messages |-> <<>>]

\* what create_agents and create_group_chat may do in initialize_agents
InitOutcomes ==
    {"ok", "create_agents raises", "create_group_chat raises",
     "group_chat_result is None", "group_chat_result has one element",
     "manager is None"}

AgentsSet(backend) ==
    [backend EXCEPT !.planner = "set", !.executor = "set",
                    !.analyzer = "set", !.user_proxy = "set"]

\* the try block of initialize_agents (lines 29-50): whether it raised, and
\* the fields at that point or at its end
TryInitialize(backend, result) ==
    CASE result = "create_agents raises" ->
            [raised |-> TRUE, backend |-> backend]
      [] result \in {"create_group_chat raises", "group_chat_result is None",
                     "group_chat_result has one element"} ->
            [raised |-> TRUE, backend |-> AgentsSet(backend)]
      [] result = "manager is None" ->
            [raised |-> TRUE,
             backend |-> [AgentsSet(backend) EXCEPT !.group_chat = "set",
                                                    !.manager = "None"]]
      [] OTHER ->
            [raised |-> FALSE,
             backend |-> [AgentsSet(backend) EXCEPT !.group_chat = "set",
                                                    !.manager = "set",
                                                    !.group_chat_messages = <<>>,
                                                    !.is_initialized = TRUE]]

\* the except clause of initialize_agents (lines 52-55): self.reset()
ExceptKeepsFields(backend) == backend

ExceptResets(backend) == ResetFields

\* no backend call made yet: AutoGenBackend.__init__ has called reset()
NoBackendReturn ==
    [op |-> "__init__", raised |-> FALSE, value |-> FALSE, error |-> <<>>,
     messages |-> <<>>, raw_messages |-> <<>>, before |-> ResetFields]

AutoGenIdle ==
    /\ g_self = ResetFields
    /\ g_ret = NoBackendReturn
    /\ g_calls = 0

---------------------------------------------------------------------------
(* Turn Controller: the states and the steps of a session *)

TurnInit ==
    /\ chat_history = <<>>
    /\ output_paths = EmptyMap
    /\ intermediate_outputs = <<>>
    /\ state = EmptyState
    /\ starting_paths = NoPaths
    /\ pc = "idle"
    /\ steps = 0
    /\ route = "none"
    /\ outcome = "none"
    /\ exc = "none"
    /\ artifacts = {}
    /\ last_step = "init"
    /\ tool_trace = NoTrace
    /\ pre = [chat_history |-> <<>>, output_paths |-> EmptyMap,
              intermediate_outputs |-> <<>>]
    /\ model_calls = 0
    /\ tool_calls = 0
    /\ turns = 0
    /\ budget = MaxFreeReplies
    /\ free = TRUE

NoFirstCall ==
    [raised |-> FALSE, result |-> Analyze(NativeValue("object"), "none")]

\* no call of analyze under way but those call_tools makes
AnalyzeIdle ==
    /\ a_data = NativeValue("object")
    /\ a_hint = "none"
    /\ a_pc = "idle"
    /\ a_raised = FALSE
    /\ a_result = Analyze(NativeValue("object"), "none")
    /\ a_data0 = NativeValue("object")
    /\ a_first = NoFirstCall

\* no catalog built yet, no descriptor uploaded, no artifact written
NoReturn ==
    [op |-> "none", data_var |-> "", raised |-> FALSE, exc_type |-> "",
     error |-> <<>>, args |-> <<>>, group_by |-> "", value |-> <<>>,
     before |-> NoCatalog, files |-> {}]

CatalogIdle ==
    /\ c_input_data = <<>>
    /\ c_tools = NoCatalog
    /\ c_ret = NoReturn
    /\ c_files = {}
    /\ c_uuid = 0
    /\ c_handles = <<>>
    /\ c_calls = 0

Init == TurnInit /\ AnalyzeIdle /\ CatalogIdle /\ AutoGenIdle

\* user_sent_message up to graph.invoke (backend.py lines 40-57)
UserSentMessage ==
    /\ pc = "idle"
    /\ turns < MaxTurns
    /\ \E input_data \in InputChoices :
         /\ starting_paths' = [pickle |-> Accumulated(output_paths, "pickle"),
                               html   |-> Accumulated(output_paths, "html")]
         /\ state' = [messages |-> Append(chat_history,
                                      HumanMessage(<<"User Query:", T_TEXT>>)),
                      output_paths |->
                          [pickle |-> SetToSeq(starting_paths'.pickle),
                           html   |-> SetToSeq(starting_paths'.html)],
                      input_data |-> input_data,
                      intermediate_outputs |-> <<>>,
                      keys |-> {"messages", "output_paths", "input_data"}]
    /\ pre' = Session
    /\ pc' = "agent"
    /\ steps' = 0
    /\ route' = "none"
    /\ outcome' = "running"
    /\ exc' = "none"
    /\ last_step' = IF last_step = "reset" THEN "restart" ELSE "start"
    /\ tool_trace' = NoTrace
    /\ model_calls' = 0
    /\ tool_calls' = 0
    /\ turns' = turns + 1
    /\ free' = TRUE
    /\ UNCHANGED <<chat_history, output_paths, intermediate_outputs, artifacts, budget>>
    /\ UNCHANGED <<AnalyzeVars, CatalogVars, AutoGenVars>>

\* the exception, were the messages of the failed run stored on the way out
RaiseKeepsMessages(e) ==
    /\ pc' = "idle"
    /\ outcome' = "raised"
    /\ exc' = e
    /\ chat_history' = state.messages
    /\ UNCHANGED <<output_paths, intermediate_outputs, starting_paths>>

\* an exception leaves graph.invoke and, uncaught, user_sent_message
Raise(e) ==
    /\ pc' = "idle"
    /\ outcome' = "raised"
    /\ exc' = e
    /\ UNCHANGED <<chat_history, output_paths, intermediate_outputs, starting_paths>>

\* the replies the model is drawn from at this point of the session: any
\* reply while the budget lasts; after that a reply without code, except that
\* a model that has just asked for the chart may ask for it again, and goes on
\* asking once it has
ReplyChoices ==
    IF budget > 0 THEN Replies
    ELSE IF model_calls > 0 /\ state.messages[Len(state.messages) - 1].content = R_HIST
    THEN IF free THEN {R_HIST, R_FINAL} ELSE {R_HIST}
    ELSE IF model_calls > 0 THEN {R_FINAL}
    ELSE {r \in Replies : ~Contains(r, T_PYFENCE)}

\* node agent: call_model, then the conditional edge (nodes.py lines 20-136,
\* backend.py lines 25-32)
CallModel ==
    /\ pc = "agent"
    /\ steps < RecursionLimit
    /\ \E reply \in ReplyChoices :
         LET st == AppendMessage(state, reply)
             r  == route_to_tools(st)
         IN  /\ state' = st
             /\ route' = r
             /\ free' = (budget > 0)
             /\ budget' = IF budget > 0 /\ Contains(reply, T_PYFENCE)
                          THEN budget - 1 ELSE budget
             /\ IF r \in DOMAIN PathMap
                THEN /\ pc' = PathMap[r]
                     /\ UNCHANGED <<outcome, exc, chat_history, output_paths,
                                    intermediate_outputs, starting_paths>>
                ELSE Raise("KeyError")
    /\ steps' = steps + 1
    /\ model_calls' = model_calls + 1
    /\ last_step' = "agent"
    /\ UNCHANGED <<artifacts, tool_trace, pre, tool_calls, turns>>
    /\ UNCHANGED <<AnalyzeVars, CatalogVars, AutoGenVars>>

\* node agent when llm.invoke raises (nodes.py line 113)
CallModelFails ==
    /\ pc = "agent"
    /\ steps < RecursionLimit
    /\ budget > 0
    /\ Raise("LLMError")
    /\ steps' = steps + 1
    /\ model_calls' = model_calls + 1
    /\ last_step' = "agent_failed"
    /\ UNCHANGED <<state, route, artifacts, tool_trace, pre, tool_calls, turns,
                   budget, free>>
    /\ UNCHANGED <<AnalyzeVars, CatalogVars, AutoGenVars>>

\* the REPL outcomes drawn from at this point: any while the reply was chosen
\* freely, the chart handle on a repeated reply
ReplChoices ==
    IF ParseFails(Last(state.messages).content) THEN {"text"}
    ELSE LET last_stmt == Last(Statements(CodeBlock(Last(state.messages).content)))
         IN  IF free THEN ReplOutcomes(last_stmt)
             ELSE IF "handle" \in ReplOutcomes(last_stmt) THEN {"handle"}
             ELSE ReplOutcomes(last_stmt)

\* node tools: call_tools, then the edge back to agent (nodes.py lines 138-310,
\* backend.py line 35)
CallTools ==
    /\ pc = "tools"
    /\ steps < RecursionLimit
    /\ \E repl \in ReplChoices :
         LET r == call_tools(state, repl, FreshName(artifacts)) IN
         /\ state' = r.state
         /\ artifacts' = artifacts \cup r.wrote
         /\ tool_trace' = r.trace
    /\ pc' = "agent"
    /\ steps' = steps + 1
    /\ tool_calls' = tool_calls + 1
    /\ last_step' = "tools"
    /\ UNCHANGED <<chat_history, output_paths, intermediate_outputs,
                   starting_paths, route, outcome, exc, pre, model_calls, turns,
                   budget, free>>
    /\ UNCHANGED <<AnalyzeVars, CatalogVars, AutoGenVars>>

\* node end: lambda x: x, after which no node is due (backend.py line 22)
EndNode ==
    /\ pc = "end"
    /\ steps < RecursionLimit
    /\ pc' = "exit"
    /\ steps' = steps + 1
    /\ last_step' = "end"
    /\ UNCHANGED <<chat_history, output_paths, intermediate_outputs, state,
                   starting_paths, route, outcome, exc, artifacts, tool_trace,
                   pre, model_calls, tool_calls, turns, budget, free>>
    /\ UNCHANGED <<AnalyzeVars, CatalogVars, AutoGenVars>>

\* the ceiling, were it not enforced: the node that is due runs all the same
RecursionLimitNotEnforced ==
    /\ pc \in {"agent", "tools", "end"}
    /\ steps = RecursionLimit
    /\ steps' = steps + 1
    /\ last_step' = "limit"
    /\ UNCHANGED <<chat_history, output_paths, intermediate_outputs,
                   starting_paths, pc, outcome, exc>>
    /\ UNCHANGED <<state, route, artifacts, tool_trace, pre, model_calls,
                   tool_calls, turns, budget, free>>
    /\ UNCHANGED <<AnalyzeVars, CatalogVars, AutoGenVars>>

\* a node is due after recursion_limit supersteps: GraphRecursionError
RecursionLimitReached ==
    /\ pc \in {"agent", "tools", "end"}
    /\ steps >= RecursionLimit
    /\ Raise("GraphRecursionError")
    /\ last_step' = "limit"
    /\ UNCHANGED <<state, steps, route, artifacts, tool_trace, pre, model_calls,
                   tool_calls, turns, budget, free>>
    /\ UNCHANGED <<AnalyzeVars, CatalogVars, AutoGenVars>>

\* user_sent_message after graph.invoke returned (backend.py lines 58-72)
UserSentMessageReturns ==
    /\ pc = "exit"
    /\ chat_history' = state.messages
    /\ output_paths' =
         IF "output_paths" \in state.keys
         THEN Store(output_paths, DeltaKey(chat_history'),
                    NewPaths(state.output_paths, starting_paths))
         ELSE output_paths
    /\ intermediate_outputs' =
         IF "intermediate_outputs" \in state.keys
         THEN intermediate_outputs \o state.intermediate_outputs
         ELSE intermediate_outputs
    /\ pc' = "idle"
    /\ outcome' = "returned"
    /\ last_step' = "return"
    /\ UNCHANGED <<state, starting_paths, steps, route, exc, artifacts,
                   tool_trace, pre, model_calls, tool_calls, turns, budget, free>>
    /\ UNCHANGED <<AnalyzeVars, CatalogVars, AutoGenVars>>

ResetChatKeepsPaths ==
    /\ pc = "idle"
    /\ turns > 0
    /\ last_step # "reset"
    /\ chat_history' = <<>>
    /\ intermediate_outputs' = <<>>
    /\ last_step' = "reset"
    /\ UNCHANGED <<state, starting_paths, pc, steps, route, outcome, exc,
                   artifacts, tool_trace, pre, model_calls, tool_calls, turns,
                   budget, free, output_paths>>
    /\ UNCHANGED <<AnalyzeVars, CatalogVars, AutoGenVars>>

\* reset_chat (backend.py lines 74-77)
ResetChat ==
    /\ pc = "idle"
    /\ turns > 0
    /\ last_step # "reset"
    /\ chat_history' = <<>>
    /\ intermediate_outputs' = <<>>
    /\ output_paths' = EmptyMap
    /\ last_step' = "reset"
    /\ UNCHANGED <<state, starting_paths, pc, steps, route, outcome, exc,
                   artifacts, tool_trace, pre, model_calls, tool_calls, turns,
                   budget, free>>
    /\ UNCHANGED <<AnalyzeVars, CatalogVars, AutoGenVars>>

Next ==
    \/ UserSentMessage
    \/ CallModel
    \/ CallModelFails
    \/ CallTools
    \/ EndNode
    \/ RecursionLimitReached
    \/ UserSentMessageReturns
    \/ ResetChat

Spec == Init /\ [][Next]_vars

---------------------------------------------------------------------------
(* The Output Interpreter on its own: analyze called, and called once more, *)
(* on a value and a type hint drawn from the sets below.                    *)

MaxItems == 2

Elements == {IntElem(1), IntElem(2), StrElem("a"), NoneElem}

\* the lists and tuples of at most MaxItems elements
Lists == UNION {[1..n -> Elements] : n \in 0..MaxItems}

\* the claim's error message, bare and as the repr of a ValueError
E_ABC == <<T_EXPECTED, LIT_ABC, T_RECEIVED, "'d'">>

Texts ==
    {<<>>, <<T_TEXT>>, <<V_OK, "View at images/plotly_figures/1.html">>,
     <<T_PICKLE>>, E_OTHER, E_COLUMN, Repr(E_COLUMN), E_DATASET,
     Repr(E_DATASET), E_ABC, <<M_VALUE>> \o E_ABC, Repr(<<M_VALUE>> \o E_ABC),
     <<T_EXPECTED, LIT_BAD, T_RECEIVED, "'d'">>,
     <<T_VE_OPEN, T_DQ, "boom">>,
     <<LIT_ABC>>, <<LIT_NUMS>>, <<LIT_EMPTY>>, <<LIT_BAD>>, <<LIT_ABC, LIT_NUMS>>,
     <<JSON_EMPTY>>, <<JSON_BAD>>}

Mappings ==
    {HandleValue(FileName(1)), ColumnsValue, MappingValue(<<>>),
     MappingValue(<<"a", "b">>), MappingValue(<<"figure">>),
     MappingValue(<<"filename">>)}

\* the points of a figure: a category and a value each
Points == {Point("a", 1), Point("b", 2), Point("a", 3)}

\* the chart handles of box plots and bar charts of at most MaxItems points
FigureHandles ==
    {FigureHandle(plot_type, points, FileName(1)) :
         plot_type \in {"box", "bar"},
         points \in UNION {[1..n -> Points] : n \in 0..MaxItems}}

AnalyzeInputs ==
    {StrValue(t) : t \in Texts} \cup Mappings \cup {ListValue(l) : l \in Lists}
        \cup FigureHandles
        \cup {NativeValue(k) : k \in {"dataframe", "series", "object"}}

\* data_type: None, the types analyze dispatches on, and one it does not know
Hints == {"none", "visualization", "error", "dataframe", "series", "dict",
          "list", "text"}

InitAnalyze ==
    /\ TurnInit
    /\ CatalogIdle
    /\ AutoGenIdle
    /\ a_data \in AnalyzeInputs
    /\ a_hint \in Hints
    /\ a_pc = "call"
    /\ a_raised = FALSE
    /\ a_result = Analyze(NativeValue("object"), "none")
    /\ a_data0 = a_data
    /\ a_first = NoFirstCall

\* analysis_agent.analyze(data, data_type)
AnalyzeStep ==
    /\ a_pc = "call"
    /\ a_raised' = AnalyzeCall(a_data, a_hint).raised
    /\ a_result' = AnalyzeCall(a_data, a_hint).results
    /\ a_data' = DataAfterAnalyze(a_data, a_hint)
    /\ a_pc' = "done"
    /\ UNCHANGED <<a_hint, a_data0, a_first>>
    /\ UNCHANGED <<TurnVars, CatalogVars, AutoGenVars>>

\* analysis_agent.analyze(data, data_type) once more, on the same object
AnalyzeAgain ==
    /\ a_pc = "done"
    /\ a_first' = [raised |-> a_raised, result |-> a_result]
    /\ a_raised' = AnalyzeCall(a_data, a_hint).raised
    /\ a_result' = AnalyzeCall(a_data, a_hint).results
    /\ a_data' = DataAfterAnalyze(a_data, a_hint)
    /\ a_pc' = "again"
    /\ UNCHANGED <<a_hint, a_data0>>
    /\ UNCHANGED <<TurnVars, CatalogVars, AutoGenVars>>

NextAnalyze == AnalyzeStep \/ AnalyzeAgain

SpecAnalyze == InitAnalyze /\ [][NextAnalyze]_vars

---------------------------------------------------------------------------
(* The catalog on its own: descriptors are constructed and collected into   *)
(* input_data, a code-execution step constructs its catalog from            *)
(* input_data, and the step's code calls the catalog's operations.          *)

MaxDescriptors == 2
MaxCalls == 4

VariableNames == {"", "hmda_2022"}
DataPaths == {"", "data/ok.csv", "data/one.csv", "data/text.csv",
              "data/na.csv", "data/empty.csv", "data/blank.csv",
              "data/gone.csv"}
DataVars == {"hmda", "hmda_2022"}

\* what a call left: the value it returned or the error it raised, with
\* the catalog and the artifacts directory as they were when it began
Return(op, data_var, value) ==
    [op |-> op, data_var |-> data_var, raised |-> FALSE, exc_type |-> "",
     error |-> <<>>, args |-> <<>>, group_by |-> "", value |-> value, before |-> c_tools, files |-> c_files]
Raises(op, data_var, exc_type, error) ==
    [op |-> op, data_var |-> data_var, raised |-> TRUE, exc_type |-> exc_type,
     error |-> error, args |-> <<>>, group_by |-> "", value |-> <<>>, before |-> c_tools, files |-> c_files]

\* raise ValueError(f"Dataset {data_var} not found")
DatasetNotFound(data_var) == <<"Dataset", data_var, "not found">>

\* InputData(variable_name, data_path), appended to input_data when built
NewInputData(variable_name, data_path) ==
    /\ Len(c_input_data) < MaxDescriptors
    /\ LET checked == PostInit(variable_name, data_path) IN
       IF checked.ok
       THEN /\ c_input_data' =
                  Append(c_input_data, InputData(variable_name, data_path))
            /\ c_ret' = [Return("InputData", "",
                                 InputData(variable_name, data_path))
                             EXCEPT !.args = <<variable_name, data_path>>]
       ELSE /\ c_ret' = [Raises("InputData", "", "ValueError", checked.error)
                             EXCEPT !.args = <<variable_name, data_path>>]
            /\ UNCHANGED c_input_data
    /\ UNCHANGED <<c_tools, c_files, c_uuid, c_handles, c_calls>>
    /\ UNCHANGED <<TurnVars, AnalyzeVars, AutoGenVars>>

\* tools = DataAnalysisTools(state["input_data"]) of a code-execution step:
\* nothing of the catalog of an earlier step is kept
StepCatalogReused(previous, input_data) ==
    IF previous.bound THEN previous ELSE DataAnalysisTools(input_data)

StepCatalog(previous, input_data) == DataAnalysisTools(input_data)

Construct ==
    /\ c_calls < MaxCalls
    /\ c_calls' = c_calls + 1
    /\ LET init == ToolsInit(c_input_data) IN
       IF init.ok
       THEN /\ c_tools' = StepCatalog(c_tools, c_input_data)
            /\ c_ret' = Return("__init__", "", <<>>)
       ELSE /\ c_tools' = NoCatalog
            /\ c_ret' = Raises("__init__", "", "ValueError", init.error)
    /\ UNCHANGED <<c_input_data, c_files, c_uuid, c_handles>>
    /\ UNCHANGED <<TurnVars, AnalyzeVars, AutoGenVars>>

\* get_columns(data_var)
GetColumns(data_var) ==
    /\ c_tools.bound
    /\ c_calls < MaxCalls
    /\ c_calls' = c_calls + 1
    /\ c_ret' = IF ~InDataframes(c_tools, data_var)
                THEN Raises("get_columns", data_var, "ValueError",
                            DatasetNotFound(data_var))
                ELSE Return("get_columns", data_var, Columns)
    /\ UNCHANGED <<c_input_data, c_tools, c_files, c_uuid, c_handles>>
    /\ UNCHANGED <<TurnVars, AnalyzeVars, AutoGenVars>>

\* _save_figure(fig) with the n-th uuid4 of the process: the handle it
\* returns or the error of write_html it raises again, and the directory
SaveFigureSwallows(files, n, write_ok) ==
    [raised |-> FALSE, filename |-> FileName(n),
     files |-> IF write_ok THEN files \cup {FileName(n)} ELSE files]

SaveFigure(files, n, write_ok) ==
    IF write_ok
    THEN [raised |-> FALSE, filename |-> FileName(n),
          files |-> files \cup {FileName(n)}]
    ELSE [raised |-> TRUE, filename |-> "", files |-> files]

\* create_histogram(data_var, column); write_ok is whether write_html
\* succeeds
CreateHistogram(data_var, column, write_ok) ==
    /\ c_tools.bound
    /\ c_calls < MaxCalls
    /\ c_calls' = c_calls + 1
    /\ UNCHANGED c_input_data
    /\ UNCHANGED <<TurnVars, AnalyzeVars, AutoGenVars>>
    /\ IF ~InDataframes(c_tools, data_var)
       THEN /\ c_ret' = Raises("create_histogram", data_var, "ValueError",
                               DatasetNotFound(data_var))
            /\ UNCHANGED <<c_tools, c_files, c_uuid, c_handles>>
       ELSE IF column \notin Range(Columns)
       THEN /\ c_ret' = Raises("create_histogram", data_var, "KeyError",
                               <<column>>)
            /\ UNCHANGED <<c_tools, c_files, c_uuid, c_handles>>
       ELSE LET saved == SaveFigure(c_files, c_uuid + 1, write_ok) IN
            /\ c_tools' = [c_tools EXCEPT !.table = Coerce(@, column)]
            /\ c_uuid' = c_uuid + 1
            /\ c_files' = saved.files
            /\ IF saved.raised
               THEN /\ c_ret' = Raises("create_histogram", data_var, "OSError",
                                       <<"write_html">>)
                    /\ UNCHANGED c_handles
               ELSE /\ c_ret' = Return("create_histogram", data_var,
                                       HandleValue(saved.filename))
                    /\ c_handles' = Append(c_handles, saved.filename)

\* calculate_summary_stats(data_var, columns=None, group_by=group_by),
\* group_by "" for None
SummaryStats(table, group_by) ==
    LET columns == NumericColumns(table) IN
    IF group_by # "" /\ group_by \notin Range(Columns)
    THEN [raised |-> TRUE, exc_type |-> "KeyError", error |-> <<group_by>>,
          value |-> <<>>]
    ELSE IF columns = <<>>
    THEN [raised |-> TRUE, exc_type |-> "ValueError",
          error |-> <<"Cannot describe a DataFrame without columns">>,
          value |-> <<>>]
    ELSE IF group_by # ""
    THEN [raised |-> FALSE, exc_type |-> "", error |-> <<>>,
          value |-> GroupedStats(table, columns, group_by)]
    ELSE [raised |-> FALSE, exc_type |-> "", error |-> <<>>,
          value |-> Describe(table, columns)]

CalculateSummaryStats(data_var, group_by) ==
    /\ c_tools.bound
    /\ c_calls < MaxCalls
    /\ c_calls' = c_calls + 1
    /\ c_ret' = IF ~InDataframes(c_tools, data_var)
                THEN Raises("calculate_summary_stats", data_var, "ValueError",
                            DatasetNotFound(data_var))
                ELSE LET stats == SummaryStats(c_tools.table, group_by) IN
                     IF stats.raised
                     THEN Raises("calculate_summary_stats", data_var,
                                 stats.exc_type, stats.error)
                     ELSE [Return("calculate_summary_stats", data_var, stats.value)
                              EXCEPT !.group_by = group_by]
    /\ UNCHANGED <<c_input_data, c_tools, c_files, c_uuid, c_handles>>
    /\ UNCHANGED <<TurnVars, AnalyzeVars, AutoGenVars>>

NextCatalog ==
    \/ \E variable_name \in VariableNames, data_path \in DataPaths :
           NewInputData(variable_name, data_path)
    \/ Construct
    \/ \E data_var \in DataVars :
           GetColumns(data_var)
    \/ \E data_var \in DataVars, column \in {"loan_amount", "race"},
          write_ok \in BOOLEAN :
           CreateHistogram(data_var, column, write_ok)
              
    \/ \E data_var \in DataVars, group_by \in {"", "derived_race", "loan_amount", "race"} :
           CalculateSummaryStats(data_var, group_by)
              

SpecCatalog == Init /\ [][NextCatalog]_vars

---------------------------------------------------------------------------
(* The AutoGen backend on its own: initialize_agents, process_query and     *)
(* reset called in any order on one backend object.                         *)

BackendReturn(op, value, error, messages, raw_messages) ==
    [op |-> op, raised |-> FALSE, value |-> value, error |-> error,
     messages |-> messages, raw_messages |-> raw_messages, before |-> g_self]

UserEntry == [role |-> "user", content |-> <<T_TEXT>>]

\* initialize_agents(config_list)
InitializeAgents(result) ==
    /\ g_calls < MaxBackendCalls
    /\ g_calls' = g_calls + 1
    /\ LET tried == TryInitialize(g_self, result) IN
       IF tried.raised
       THEN /\ g_self' = ExceptResets(tried.backend)
            /\ g_ret' = BackendReturn("initialize_agents", FALSE, <<result>>,
                                      <<>>, <<>>)
       ELSE /\ g_self' = tried.backend
            /\ g_ret' = BackendReturn("initialize_agents", TRUE, <<>>, <<>>, <<>>)
    /\ UNCHANGED <<TurnVars, AnalyzeVars, CatalogVars>>

\* the guard of process_query, were it missing
NotInitializedNeverRefuses(backend) == FALSE

\* line 59: not self._is_initialized
NotInitialized(backend) == ~backend.is_initialized

\* the mapping process_query returns (lines 60-66, 131-137 and 141-148)
QueryReturn(value, error, messages, raw_messages, paths, outputs) ==
    [op |-> "process_query", raised |-> FALSE, value |-> value,
     error |-> error, messages |-> messages, raw_messages |-> raw_messages,
     before |-> g_self, output_paths |-> paths,
     intermediate_outputs |-> outputs]

\* process_query(user_query, input_data); run_ok is whether manager.run
\* returns
ProcessQuery(input_data, run_ok) ==
    /\ g_calls < MaxBackendCalls
    /\ g_calls' = g_calls + 1
    /\ Len(g_self.chat_history) < MaxQueries
    /\ IF NotInitialized(g_self)
       THEN /\ g_ret' = QueryReturn(FALSE, <<"Backend not initialized">>,
                                    <<>>, <<>>, EmptyMap, <<>>)
            /\ UNCHANGED g_self
       ELSE IF ~ToolsInit(input_data).ok
       THEN /\ g_ret' = QueryReturn(FALSE, ToolsInit(input_data).error,
                                    g_self.chat_history, <<>>,
                                    g_self.output_paths,
                                    g_self.intermediate_outputs)
            /\ UNCHANGED g_self
       ELSE LET asked == [g_self EXCEPT
                              !.tools = "set",
                              !.chat_history = Append(@, UserEntry),
                              !.group_chat_messages = <<>>] IN
            IF run_ok
            THEN /\ g_self' = [asked EXCEPT !.group_chat_messages =
                                   <<"Task:", "Planner:">>]
                 /\ g_ret' = QueryReturn(TRUE, <<>>, asked.chat_history,
                                         <<"Task:", "Planner:">>,
                                         asked.output_paths,
                                         asked.intermediate_outputs)
            ELSE /\ g_self' = asked
                 /\ g_ret' = QueryReturn(FALSE, <<"manager.run">>,
                                         asked.chat_history, <<>>,
                                         asked.output_paths,
                                         asked.intermediate_outputs)
    /\ UNCHANGED <<TurnVars, AnalyzeVars, CatalogVars>>

\* reset()
Reset ==
    /\ g_calls < MaxBackendCalls
    /\ g_calls' = g_calls + 1
    /\ g_ret.op # "reset"
    /\ g_self' = ResetFields
    /\ g_ret' = BackendReturn("reset", TRUE, <<>>, <<>>, <<>>)
    /\ UNCHANGED <<TurnVars, AnalyzeVars, CatalogVars>>

NextAutoGen ==
    \/ \E result \in InitOutcomes : InitializeAgents(result)
    \/ \E input_data \in InputChoices, run_ok \in BOOLEAN :
           ProcessQuery(input_data, run_ok)
    \/ Reset

SpecAutoGen == Init /\ [][NextAutoGen]_vars

---------------------------------------------------------------------------
(* Properties *)

LastContent == Last(state.messages).content

\* the message call_tools consumed, when call_tools was the last step
Consumed == state.messages[Len(state.messages) - 1].content

\* the model's first reply of the turn, once there is one
HasFirstReply == turns > 0 /\ Len(state.messages) >= Len(pre.chat_history) + 2
FirstReply == state.messages[Len(pre.chat_history) + 2].content

HasMarker(content) == Contains(content, T_VIZ_MARK) \/ Contains(content, T_RES_MARK)

\* C1: every invocation of call_tools appends exactly one record to
\* intermediate_outputs, whatever its outcome: the log of the turn is as long
\* as the number of invocations.
C1_OneRecordPerInvocation == Len(LogOf(state)) = tool_calls

\* C2: the artifact delta stored for a turn is, per category, the filenames of
\* the final output_paths of the graph minus those accumulated in the session
\* before the turn.
C2_DeltaIsPostMinusPre ==
    last_step = "return" =>
        /\ (Len(chat_history) - 1) \in DOMAIN output_paths
        /\ \A category \in {"html", "pickle"} :
              output_paths[Len(chat_history) - 1][category]
                = Range(state.output_paths[category])
                    \ Accumulated(pre.output_paths, category)

C2_Witness ==
    /\ last_step = "return"
    /\ Accumulated(pre.output_paths, "html") # {}
    /\ output_paths[Len(chat_history) - 1].html # {}
    /\ Range(state.output_paths.html) # output_paths[Len(chat_history) - 1].html

\* C3: a latest message that holds a fenced (python) code block is routed to
\* tools, whatever else it holds.
C3_FenceRoutesToTools ==
    (last_step = "agent" /\ Contains(LastContent, T_PYFENCE)) => route = "tools"

C3_Witness ==
    /\ last_step = "agent"
    /\ Contains(LastContent, T_PYFENCE)
    /\ Contains(LastContent, T_RES_MARK)
    /\ route = "tools"
    /\ pc = "tools"

\* C4: a latest message with no code block and a results marker is routed to
\* model, and the next step of the turn is another model invocation.
C4_MarkerLoopsBackToModel ==
    (last_step = "agent" /\ ~Contains(LastContent, T_PYFENCE) /\ HasMarker(LastContent))
        => (route = "model" /\ pc = "agent" /\ outcome = "running")

\* C5 as stated: a turn whose first reply holds no code block ends after one
\* model invocation and no code execution, in the node end.
C5_NoCodeEndsAfterOneCall ==
    (HasFirstReply /\ ~Contains(FirstReply, T_PYFENCE)) =>
        /\ model_calls = 1
        /\ tool_calls = 0
        /\ route = "end"
        /\ pc \in {"end", "exit", "idle"}
        /\ outcome # "raised"

\* C5 as amended: a turn whose first reply holds neither a code block nor a
\* results marker ends after one model invocation and no code execution, in
\* the node end.
C5_NoCodeNoMarkerEndsAfterOneCall ==
    (HasFirstReply /\ ~Contains(FirstReply, T_PYFENCE) /\ ~HasMarker(FirstReply)) =>
        /\ model_calls = 1
        /\ tool_calls = 0
        /\ route = "end"
        /\ pc \in {"end", "exit", "idle"}
        /\ outcome # "raised"
        /\ (pc = "idle" => last_step \in {"return", "reset"})

C5_Witness ==
    /\ last_step = "return"
    /\ HasFirstReply
    /\ ~Contains(FirstReply, T_PYFENCE)
    /\ ~HasMarker(FirstReply)
    /\ model_calls = 1
    /\ steps = 2

\* a conversation state that shares nothing with the running one but the
\* content of the last message
OnlyLastMessage ==
    [messages |-> <<HumanMessage(LastContent)>>,
     output_paths |-> [pickle |-> <<>>, html |-> <<>>],
     input_data |-> <<>>, intermediate_outputs |-> <<>>, keys |-> {"messages"}]

\* C6: the decision of the router is a function of the content of the latest
\* message only: it is the decision for any other state whose last message
\* has that content.
C6_RouteDependsOnLastContentOnly ==
    last_step = "agent" => route = route_to_tools(OnlyLastMessage)

C6_Witness ==
    /\ last_step = "agent"
    /\ Len(state.messages) > 4
    /\ Len(pre.chat_history) > 0
    /\ LogOf(state) # <<>>
    /\ state.output_paths.html # <<>>
    /\ state.input_data # <<>>
    /\ route = "tools"

\* C7: a turn that reaches the iteration ceiling ends normally:
\* user_sent_message returns and the stored history is the messages
\* accumulated so far.
C7_CeilingEndsTurnNormally ==
    last_step = "limit" => (outcome = "returned" /\ chat_history = state.messages)

\* C8: no failure of the dataset layer, the catalog, the generated code or the
\* language model call leaves user_sent_message as an exception: the step that
\* failed appended a message and the turn goes on.
C8_NoLayerFailureEscapes ==
    last_step \in {"agent_failed", "tools"} =>
        /\ outcome = "running"
        /\ LastContent # <<>>
        /\ Last(state.messages).role = "ai"

\* C9: the step fields of the session log, in log order, are 1, 2, ..., n.
C9_SessionStepsContiguous ==
    \A i \in 1..Len(intermediate_outputs) : intermediate_outputs[i].step = i

\* C10: when the latest message lacks the Thought: segment or the python code
\* fence, call_tools builds no catalog, runs no code, appends the one message
\* "Code execution failed." with the invalid-format diagnostic and returns, so
\* that the turn goes on with the model.
C10_ParseFailureIsAMessage ==
    [][(/\ pc = "tools"
        /\ last_step' = "tools"
        /\ (~Contains(LastContent, T_THOUGHT) \/ ~Contains(LastContent, T_PYFENCE)))
       => (/\ state'.messages
                = Append(state.messages, AIMessage(<<FAILED, PARSE_ERROR>>))
           /\ ~tool_trace'.catalog
           /\ ~tool_trace'.executed
           /\ pc' = "agent"
           /\ outcome' = "running")]_vars

C10_Witness ==
    /\ last_step = "tools"
    /\ ~Contains(Consumed, T_THOUGHT)
    /\ Contains(Consumed, T_PYFENCE)
    /\ LastContent = <<FAILED, PARSE_ERROR>>
    /\ state.input_data = <<D_GOOD>>
    /\ pc = "agent"

\* C11: every invocation of call_tools appends exactly one assistant message
\* to the conversation, on the parse-failure, catalog-failure, success and
\* execution-error paths alike, and leaves every earlier message as it was.
C11_OneMessagePerInvocation ==
    [][(pc = "tools" /\ last_step' = "tools")
       => (/\ Len(state'.messages) = Len(state.messages) + 1
           /\ SubSeq(state'.messages, 1, Len(state.messages)) = state.messages
           /\ Last(state'.messages).role = "ai")]_vars

\* the catalog could not be built, in a turn that follows another
C11_Witness ==
    /\ last_step = "tools"
    /\ tool_trace.parsed
    /\ ~tool_trace.catalog
    /\ Len(pre.chat_history) > 0
    /\ Len(state.messages) = Len(pre.chat_history) + 3
    /\ Last(state.messages).role = "ai"
    /\ LastContent[1] = FAILED

\* C12: when the final statement of a code-execution step is a chart-builder
\* call that produced a chart handle pair (the artifact was written), its
\* filename is in the html list of the turn's output_paths after the step, and
\* what that list gained in the turn is in the delta stored when the turn
\* returns.
C12_ChartFilenameRecorded ==
    [][/\ (pc = "tools" /\ last_step' = "tools")
            => (artifacts' \ artifacts) \subseteq Range(state'.output_paths.html)
       /\ (pc = "exit" /\ last_step' = "return")
            => (Range(state.output_paths.html) \ starting_paths.html)
                   \subseteq output_paths'[Len(chat_history') - 1].html]_vars

\* the statement call_tools ran last, when call_tools was the last step
ConsumedLastStmt == Last(Statements(CodeBlock(Consumed)))

\* call_tools was the last step and appended a success record for a
\* chart-builder call
ChartStepSucceeded ==
    /\ last_step = "tools"
    /\ tool_trace.recorded
    /\ Last(LogOf(state)).success
    /\ MentionsVizFunc(ConsumedLastStmt)

\* the chart-builder call of that step handed call_tools its handle pair, whose
\* filename call_tools recorded
ChartHandleRecorded ==
    /\ ChartStepSucceeded
    /\ state.output_paths.html # <<>>
    /\ Last(state.output_paths.html) = FileName(Cardinality(artifacts))

\* C13: after a successful chart-builder step (one that got the handle pair)
\* the appended assistant message holds the viewing location
\* images/plotly_figures/<filename> of the artifact and the insights the
\* interpreter derives from the handle with the visualization hint.
C13_ChartMessageHasLocationAndInsights ==
    ChartHandleRecorded =>
        \E f \in {Last(state.output_paths.html)} :
            /\ Contains(LastContent, "View at images/plotly_figures/" \o f)
            /\ Range(Analyze(HandleValue(f), "visualization").insights)
                   \subseteq Range(LastContent)

\* call_tools was the last step and the statement it ran last raised
CodeRaised ==
    /\ last_step = "tools"
    /\ tool_trace.executed
    /\ ConsumedLastStmt \in {S_BOX_BAD, S_HIST_NODS}

\* C14: when the generated code raises during execution, the step appends a
\* record with success false that carries the exception message, appends an
\* assistant message that reports the error, and the turn goes on: the model
\* is invoked next, with that message as the latest one.
C14_RaiseIsRecordedAndFedBack ==
    CodeRaised =>
        /\ tool_trace.recorded
        /\ ~Last(LogOf(state)).success
        /\ Last(LogOf(state)).error = ExceptionText(ConsumedLastStmt)
        /\ Last(state.messages).role = "ai"
        /\ LastContent[1] = "Code Execution Error:"
        /\ pc = "agent"
        /\ outcome = "running"
        /\ steps < RecursionLimit

\* C15: every error text the step hands to the interpreter (line 291: the
\* message of the exception, kept in the failure record) is summarized by the
\* error path: the result has data_type "error" and insights about the error.
C15_ErrorTextTakesErrorPath ==
    \A i \in 1..Len(LogOf(state)) :
        ~LogOf(state)[i].success =>
            LET result == Analyze(StrValue(LogOf(state)[i].error), "none") IN
            /\ result.data_type = "error"
            /\ result.insights # <<>>
            /\ result.insights[1] \in {"Error:", "Error: Invalid column name specified"}

\* the text holds "Expected one of ['a','b','c'] but received 'd'"
HasAbcPhrase(text) ==
    \E i \in 1..Len(text) :
        i + 3 <= Len(text) /\ SubSeq(text, i, i + 3) = E_ABC

\* the value of a metric of a result, under a key the result has
MetricOf(result, key) ==
    LET i == CHOOSE k \in 1..Len(result.metrics) : result.metrics[k].key = key
    IN  result.metrics[i].val

HasMetric(result, key) ==
    \E k \in 1..Len(result.metrics) : result.metrics[k].key = key

\* C16: an execution error message that holds "Expected one of ['a','b','c']
\* but received 'd'" is summarized by analyze (called on it as call_tools
\* calls it, with no type hint) into a result whose insights state 3 available
\* columns and whose metrics list a, b, c.
C16_ExpectedOneOfGivesThreeColumns ==
    (a_pc = "done" /\ a_hint = "none" /\ a_data.kind = "str"
        /\ HasAbcPhrase(a_data.text)) =>
        /\ "Available columns: 3" \in Range(a_result.insights)
        /\ HasMetric(a_result, "available_columns")
        /\ MetricOf(a_result, "available_columns")
               = <<StrElem("a"), StrElem("b"), StrElem("c")>>

\* C17: analyze is total: on every value and every type hint (malformed
\* strings, empty mappings, empty sequences and exception texts among them) it
\* returns an Analysis Result whose success field is a boolean, and it raises
\* nothing to its caller.
C17_AnalyzeIsTotal ==
    a_pc = "done" =>
        /\ ~a_raised
        /\ a_result.success \in BOOLEAN
        /\ DOMAIN a_result = {"success", "data_type", "metrics", "insights", "error"}

\* the empty list, on which the summarizer raises
C17_Witness ==
    /\ a_pc = "done"
    /\ a_data = ListValue(<<>>)
    /\ a_hint = "none"
    /\ ~a_raised
    /\ a_result.success = FALSE
    /\ a_result.error = <<"min() arg is an empty sequence">>

\* C18: when classification or a summarizer fails internally, in the
\* visualization branch as in any other, analyze returns success false with
\* data_type "unknown" and the error message: no result has success true and
\* its error field set.
C18_FailureMeansSuccessFalse ==
    (a_pc = "done" /\ a_result.error # NoError) =>
        /\ ~a_result.success
        /\ a_result.data_type = "unknown"

\* C19: with no type hint, analyze classifies a mapping that has a "figure"
\* key (a chart handle) as visualization, never as a plain mapping.
C19_FigureMappingIsVisualization ==
    (a_pc = "done" /\ a_hint = "none" /\ IsDict(a_data)
        /\ "figure" \in Range(Keys(a_data))) =>
        a_result.data_type = "visualization"

\* C20: with no type hint, for every list or tuple (of any length, the empty
\* one included, and any element types) the result of analyze has data_type
\* "list" and a length metric equal to the number of elements.
C20_ListHasLengthMetric ==
    (a_pc = "done" /\ a_hint = "none" /\ a_data.kind = "list") =>
        /\ a_result.data_type = "list"
        /\ HasMetric(a_result, "length")
        /\ MetricOf(a_result, "length") = Len(a_data.items)

---------------------------------------------------------------------------
(* Properties of the catalog and of the descriptors *)

\* the last call was the catalog's constructor, on c_input_data
Constructed == c_ret.op = "__init__"

\* input_data is empty, or its first descriptor's path names no file, a
\* file of zero bytes or a table without rows
NothingToLoad ==
    \/ c_input_data = <<>>
    \/ FileStatus(c_input_data[1].data_path) \in {"missing", "blank", "empty"}

\* C21: constructing the catalog from an empty input_data, or from one whose
\* first descriptor's path does not exist, names an empty file or names a
\* table with zero rows, raises a ValueError and leaves no catalog: no table
\* is bound, none is partially loaded.
C21_NothingToLoadIsAValueError ==
    (Constructed /\ NothingToLoad) =>
        /\ c_ret.raised
        /\ c_ret.exc_type = "ValueError"
        /\ c_tools = NoCatalog

\* the constructor has failed on an existing file that holds no rows
C21_Witness ==
    /\ Constructed
    /\ c_input_data # <<>>
    /\ FileStatus(c_input_data[1].data_path) \in {"blank", "empty"}
    /\ c_ret.raised

\* the last call was an operation of the catalog
Operations == {"get_columns", "create_histogram", "calculate_summary_stats"}
Operated == c_ret.op \in Operations

\* C22: a catalog operation called with a dataset name other than the bound
\* name 'hmda' raises the ValueError 'Dataset <name> not found', whose message
\* holds the requested name, and leaves the table and the artifacts directory
\* as they were when it was called.
C22_UnknownDatasetIsRejectedFirst ==
    (Operated /\ c_ret.data_var # "hmda") =>
        /\ c_ret.raised
        /\ c_ret.exc_type = "ValueError"
        /\ c_ret.error = <<"Dataset", c_ret.data_var, "not found">>
        /\ c_tools = c_ret.before
        /\ c_files = c_ret.files

\* a chart builder was called under the descriptor's variable_name, on a
\* table it would have coerced
C22_Witness ==
    /\ c_ret.op = "create_histogram"
    /\ c_ret.data_var = "hmda_2022"
    /\ c_ret.raised
    /\ c_tools.bound
    /\ Coerce(c_tools.table, "loan_amount") # c_tools.table

\* the last call was a chart builder that returned a handle
ChartReturned == c_ret.op = "create_histogram" /\ ~c_ret.raised

\* C23: over all chart-builder calls of the process no filename is returned
\* twice; a call that returns a handle has written the artifact of that name
\* into the artifacts directory; and a call whose artifact was not written
\* raised and returned no handle.
C23_HandlesAreDistinctAndWritten ==
    /\ \A i, j \in 1..Len(c_handles) : c_handles[i] = c_handles[j] => i = j
    /\ ChartReturned =>
           /\ c_ret.value = HandleValue(Last(c_handles))
           /\ c_ret.value.filename \in c_files
    /\ \A n \in 1..c_uuid :
           FileName(n) \notin c_files => FileName(n) \notin Range(c_handles)
    /\ (c_ret.op = "create_histogram" /\ c_uuid > 0
            /\ FileName(c_uuid) \notin c_files) =>
           c_ret.raised /\ c_ret.value = <<>>

\* two chart builders have returned handles and the write of a third failed
C23_Witness ==
    /\ Len(c_handles) = 2
    /\ c_uuid = 3
    /\ c_ret.op = "create_histogram"
    /\ c_ret.raised
    /\ c_ret.exc_type = "OSError"

\* the tables a catalog binds, by name
Bindings(tools) == IF tools.bound THEN {tools.name} ELSE {}

\* C24 as stated: in every code-execution step, once its catalog has been
\* constructed, exactly one table is bound, under the name 'hmda', and it is
\* the table at the first descriptor's data path.
C24_EveryStepBindsHmda ==
    Constructed =>
        /\ Bindings(c_tools) = {"hmda"}
        /\ c_tools.table = ReadCsv(c_input_data[1].data_path)

\* C24: in every code-execution step whose catalog construction succeeds,
\* exactly one table is bound, under the fixed name 'hmda', and it is the
\* table read from the data path of the first descriptor of input_data; the
\* variable_name of the descriptor and any further descriptor have no effect.
C24_BuiltCatalogBindsHmda ==
    (Constructed /\ ~c_ret.raised) =>
        /\ Bindings(c_tools) = {"hmda"}
        /\ c_tools.table = ReadCsv(c_input_data[1].data_path)

\* a catalog was built from two descriptors with different data paths, the
\* first of them named otherwise than 'hmda'
C24_Witness ==
    /\ Constructed
    /\ ~c_ret.raised
    /\ Len(c_input_data) = 2
    /\ c_input_data[1].variable_name # "hmda"
    /\ c_input_data[2].data_path # c_input_data[1].data_path
    /\ ReadCsv(c_input_data[2].data_path) # ReadCsv(c_input_data[1].data_path)

\* the last call was the construction of a descriptor
DescriptorCall == c_ret.op = "InputData"

\* C25: constructing a descriptor with an empty variable_name or an empty
\* data_path raises a ValueError and yields no descriptor; every descriptor
\* that exists has both fields non-empty.
C25_DescriptorFieldsAreNonEmpty ==
    /\ (DescriptorCall /\ (c_ret.args[1] = "" \/ c_ret.args[2] = "")) =>
           /\ c_ret.raised
           /\ c_ret.exc_type = "ValueError"
           /\ c_ret.value = <<>>
    /\ (DescriptorCall /\ ~c_ret.raised) =>
           /\ c_ret.value = Last(c_input_data)
           /\ c_ret.value.variable_name = c_ret.args[1]
           /\ c_ret.value.data_path = c_ret.args[2]
    /\ \A i \in 1..Len(c_input_data) :
           c_input_data[i].variable_name # "" /\ c_input_data[i].data_path # ""

\* a descriptor with a variable_name and an empty data_path was refused
\* after another one had been built
C25_Witness ==
    /\ DescriptorCall
    /\ c_ret.raised
    /\ c_ret.args[1] # ""
    /\ c_ret.args[2] = ""
    /\ c_input_data # <<>>

\* C28: the catalog a code-execution step builds holds the table as it is
\* read from the data path, whatever an earlier step did to the table of its
\* own catalog: the in-place numeric coercion of a column by a chart builder
\* changes neither the file nor the table of any later step.
C28_EveryStepReloadsTheTable ==
    (Constructed /\ ~c_ret.raised) =>
        /\ c_tools.table = ReadCsv(c_input_data[1].data_path)
        /\ \A col \in Range(Columns) :
               Column(c_tools.table, col) =
                   Column(ReadCsv(c_input_data[1].data_path), col)

\* a step has built its catalog after a chart builder of the step before
\* had coerced values of the table to NaN
C28_Witness ==
    /\ Constructed
    /\ ~c_ret.raised
    /\ c_ret.before.bound
    /\ c_ret.before.table # ReadCsv(c_input_data[1].data_path)
    /\ \E i \in 1..Len(c_ret.before.table) :
           /\ c_ret.before.table[i].loan_amount = NaN
           /\ c_tools.table[i].loan_amount = StrElem("Exempt")

\* the last call was calculate_summary_stats grouped by a column, and it
\* returned
GroupedReturned ==
    /\ c_ret.op = "calculate_summary_stats"
    /\ ~c_ret.raised
    /\ c_ret.group_by # ""

\* the values of the grouping column of the table the call ran on
GroupValues == Range(Column(c_tools.table, c_ret.group_by))

\* C30: grouped summary statistics have exactly one entry per distinct value
\* of the grouping column, and when that column has a single value, the one
\* entry holds the statistics of the ungrouped call on the same table and
\* columns.
C30_OneEntryPerGroupValue ==
    GroupedReturned =>
        /\ Cardinality(DOMAIN c_ret.value) = Cardinality(GroupValues)
        /\ Cardinality(GroupValues) = 1 =>
               \A k \in DOMAIN c_ret.value :
                   c_ret.value[k] =
                       SummaryStats(c_tools.table, "").value

---------------------------------------------------------------------------
(* Properties of reset *)

\* the session of a chatbot that has just been constructed
NewSession ==
    [chat_history |-> <<>>, output_paths |-> EmptyMap,
     intermediate_outputs |-> <<>>]

\* C26: after reset_chat the history, output_paths and intermediate_outputs
\* of the session are empty, and the turn that follows starts as the first
\* turn of a new session does: the graph receives the turn's own user entry
\* as its only message, no starting paths and an empty log, so that its
\* history starts with that entry and its step indices with 1.
C26_ResetGivesANewSession ==
    /\ last_step = "reset" => Session = NewSession
    /\ last_step = "restart" =>
           /\ pre = NewSession
           /\ state.messages = <<HumanMessage(<<"User Query:", T_TEXT>>)>>
           /\ starting_paths = NoPaths
           /\ Range(state.output_paths.pickle) = {}
           /\ Range(state.output_paths.html) = {}
           /\ LogOf(state) = <<>>
    /\ (pre = NewSession /\ turns > 0) =>
           /\ state.messages[1].role = "human"
           /\ \A i \in 1..Len(LogOf(state)) : LogOf(state)[i].step = i
           /\ last_step = "return" =>
                  /\ chat_history[1].role = "human"
                  /\ \A i \in 1..Len(intermediate_outputs) :
                         intermediate_outputs[i].step = i

\* reset_chat has emptied a session that held the messages, a log record
\* and the artifact entry of a turn
C26_Witness ==
    /\ last_step = "reset"
    /\ outcome = "returned"
    /\ Len(state.messages) >= 3
    /\ LogOf(state) # <<>>
    /\ state.output_paths.html # <<>>
    /\ chat_history = <<>>
    /\ turns < MaxTurns

---------------------------------------------------------------------------
(* Properties of the AutoGen backend *)

\* the last call was initialize_agents and something in its try block failed
InitializationFailed ==
    g_ret.op = "initialize_agents" /\ g_ret.error # <<>>

Handles ==
    {"tools", "group_chat", "manager", "planner", "executor", "analyzer",
     "user_proxy"}

\* C27: when agent creation or group-chat creation fails, or the group-chat
\* result is invalid, initialize_agents returns False and does not raise, and
\* it leaves the accumulators empty, every agent, group-chat and catalog
\* handle unset and the initialized flag false.
C27_FailedInitializationLeavesNothing ==
    InitializationFailed =>
        /\ ~g_ret.raised
        /\ g_ret.value = FALSE
        /\ g_self.chat_history = <<>>
        /\ g_self.intermediate_outputs = <<>>
        /\ g_self.output_paths = EmptyMap
        /\ \A h \in Handles : g_self[h] = "None"
        /\ ~g_self.is_initialized

\* the group chat could not be created, after the agents had been, on a
\* backend that was initialized and had a query in its history
C27_Witness ==
    /\ InitializationFailed
    /\ g_ret.error \in {<<"create_group_chat raises">>, <<"manager is None">>}
    /\ g_ret.before.is_initialized
    /\ g_ret.before.chat_history # <<>>
    /\ g_ret.before.tools = "set"

---------------------------------------------------------------------------
(* Properties of the Output Interpreter called twice *)

\* analyze has been called twice on a chart handle with the visualization
\* hint
HandleAnalyzedTwice ==
    /\ a_pc = "again"
    /\ a_hint = "visualization"
    /\ a_data0.kind = "handle"

TurnDelta == NewPaths(state.output_paths, starting_paths)

\* C31 as stated: at the end of a turn its artifact delta is stored in the
\* session's output_paths under the key equal to the length of the new
\* message history.
C31_DeltaKeyedByHistoryLength ==
    last_step = "return" =>
        /\ Len(chat_history) \in DOMAIN output_paths
        /\ output_paths[Len(chat_history)] = TurnDelta

\* C31, amended: at the end of a turn its artifact delta is stored in the
\* session's output_paths under the key equal to the length of the new
\* message history minus one, the index of its last message, and under no
\* other key.
C31_DeltaKeyedByLastIndex ==
    last_step = "return" =>
        /\ DOMAIN output_paths
             = DOMAIN pre.output_paths \cup {Len(chat_history) - 1}
        /\ output_paths[Len(chat_history) - 1] = TurnDelta
        /\ \A k \in DOMAIN pre.output_paths \ {Len(chat_history) - 1} :
              output_paths[k] = pre.output_paths[k]

\* a turn with two model replies and a chart returned: the history has four
\* messages and the delta, one chart, is stored under 3
C31_Witness ==
    /\ last_step = "return"
    /\ Len(chat_history) = 4
    /\ 3 \in DOMAIN output_paths
    /\ 4 \notin DOMAIN output_paths
    /\ output_paths[3].html # {}
    /\ output_paths[3] = TurnDelta

\* a turn is under way: user_sent_message has not handed control back
TurnRunning == pc # "idle"

\* the graph steps of the turn so far: model invocations, code executions and
\* the end node
GraphSteps == model_calls + tool_calls + (IF pc = "exit" THEN 1 ELSE 0)

\* a step that takes the turn forward: one more graph step within the
\* ceiling, or control handed back to the caller
StepForward ==
    \/ steps' = steps + 1 /\ steps' <= RecursionLimit
    \/ pc' = "idle"

\* C32: every turn terminates within the ceiling.  While a turn is under way
\* it has taken at most 25 graph steps (model invocations plus code executions
\* plus the end node), and every step it takes is one more graph step or hands
\* control back to the caller: so control is back after at most 25 graph
\* steps, whatever the model replies.
C32_TurnEndsWithinRecursionLimit ==
    /\ [](TurnRunning => steps = GraphSteps /\ steps <= RecursionLimit)
    /\ [][TurnRunning => StepForward]_vars

\* a turn of a model that replied with a code block every time: thirteen model
\* invocations and twelve code executions, then control is handed back
C32_Witness ==
    /\ pc = "idle"
    /\ last_step = "limit"
    /\ steps = RecursionLimit
    /\ model_calls = 13
    /\ tool_calls = 12

\* C33: without a reset the session's accumulated artifacts only grow.  Every
\* step other than reset_chat keeps each stored delta under its key, stores a
\* new delta only under a key above all the keys stored before, and leaves the
\* accumulated set of each category a superset of what it was.
C33_StoredDeltasOnlyGrow ==
    [][last_step' # "reset" =>
          /\ \A k \in DOMAIN output_paths :
                /\ k \in DOMAIN output_paths'
                /\ output_paths'[k] = output_paths[k]
          /\ \A new \in DOMAIN output_paths' \ DOMAIN output_paths :
                \A k \in DOMAIN output_paths : k < new
          /\ \A category \in {"html", "pickle"} :
                Accumulated(output_paths, category)
                    \subseteq Accumulated(output_paths', category)]_vars

\* the second turn of a session has returned: each of the two turns stored a
\* chart of its own, the second under the higher key
C33_Witness ==
    /\ last_step = "return"
    /\ Cardinality(DOMAIN output_paths) = 2
    /\ \A k \in DOMAIN output_paths : output_paths[k].html # {}
    /\ \A k \in DOMAIN pre.output_paths :
          /\ k < Len(chat_history) - 1
          /\ output_paths[k].html \cap output_paths[Len(chat_history) - 1].html = {}

\* s is a prefix of t
IsPrefix(s, t) == Len(s) <= Len(t) /\ SubSeq(t, 1, Len(s)) = s

\* the history before the turn followed by the turn's user entry
TurnPrefix == Append(pre.chat_history, HumanMessage(<<"User Query:", T_TEXT>>))

\* C34: within a turn the message sequence is append-only.  While a turn is
\* under way the messages of the graph state begin with the history before
\* the turn followed by the turn's user entry; every step of the cycle leaves
\* the messages it found as a prefix of the messages it hands on; and the
\* history stored when the turn returns begins with that same prefix.
C34_MessagesAreAppendOnly ==
    /\ [](TurnRunning => IsPrefix(TurnPrefix, state.messages))
    /\ [][TurnRunning =>
             /\ IsPrefix(state.messages, state'.messages)
             /\ last_step' = "return" =>
                   /\ IsPrefix(TurnPrefix, chat_history')
                   /\ IsPrefix(state.messages, chat_history')]_vars

\* the second turn of a session has returned after a code execution: the
\* stored history is the earlier history, the user entry, and at least three
\* more messages
C34_Witness ==
    /\ last_step = "return"
    /\ pre.chat_history # <<>>
    /\ tool_calls > 0
    /\ Len(chat_history) >= Len(pre.chat_history) + 4
    /\ IsPrefix(TurnPrefix, chat_history)

\* call_tools was the last step and appended a success record
SuccessRecorded ==
    /\ last_step = "tools"
    /\ tool_trace.recorded
    /\ Last(LogOf(state)).success

\* what repl.run can have returned for a statement: the output it captured,
\* or the repr of the exception it caught
RawResults(stmt) ==
    {Stdout(stmt, FileName(i)) : i \in 0..Cardinality(artifacts)}
        \cup {Repr(ExceptionText(stmt))}

\* C35: in a success record appended to intermediate_outputs, raw_output is
\* the stringified raw result of the final executed statement, as it was
\* before interpretation and formatting, processed_output is the display text
\* (the text of the appended message), and the two differ.
C35_RawOutputIsTheRawResult ==
    SuccessRecorded =>
        /\ Last(LogOf(state)).raw_output \in RawResults(ConsumedLastStmt)
        /\ Last(LogOf(state)).processed_output = LastContent
        /\ Last(LogOf(state)).raw_output # Last(LogOf(state)).processed_output

\* the text is ValueError("<msg>"): the wrapper, a double quote, the message,
\* a double quote and the closing parenthesis
IsWrappedValueError(text) ==
    /\ Len(text) >= 4
    /\ text[1] = T_VE_OPEN
    /\ text[2] = T_DQ
    /\ text[Len(text) - 1] = T_DQ
    /\ Last(text) = T_CLOSE

\* the bare message <msg> of such a text
BareMessage(text) == SubSeq(text, 3, Len(text) - 2)

\* analyze has summarized a text of the form ValueError("<msg>") as an error
WrappedErrorSummarized ==
    /\ a_pc = "done"
    /\ a_data.kind = "str"
    /\ IsWrappedValueError(a_data.text)
    /\ a_result.success
    /\ a_result.data_type = "error"

\* C36: for an error text of the form ValueError("<msg>") the error
\* summarization recovers exactly the bare message <msg>, with no quote or
\* parenthesis before or after it, and records the length of that bare
\* message as the message_length metric.
C36_WrapperIsStripped ==
    WrappedErrorSummarized =>
        /\ HasMetric(a_result, "message_length")
        /\ MetricOf(a_result, "message_length") = Len(BareMessage(a_data.text))
        /\ a_result.insights[1] = "Error:" =>
              a_result.insights = <<"Error:">> \o BareMessage(a_data.text)

\* user_sent_message has just returned: the turn completed normally
TurnCompleted == last_step = "return"

\* C37: when a turn completes normally, the last message of the stored
\* history is a reply of the model with no python code fence in it; the turn
\* invoked the model once more than it executed code; and the history grew
\* by the user entry, one message per model invocation and one per code
\* execution.  The router is evaluated on a model reply only: a node other
\* than the agent is due only right after a model invocation, with the route
\* the router gives for the reply just appended, and after a code execution
\* the agent is due, so that a tool result never ends a turn.
C37_CompletedTurnEndsWithModelReply ==
    /\ TurnCompleted =>
          /\ Last(chat_history).content \in Replies
          /\ ~Contains(Last(chat_history).content, T_PYFENCE)
          /\ model_calls = tool_calls + 1
          /\ Len(chat_history)
               = Len(pre.chat_history) + 1 + model_calls + tool_calls
    /\ pc \in {"tools", "end"} =>
          /\ last_step = "agent"
          /\ route = route_to_tools(state)
          /\ Last(state.messages).content \in Replies
    /\ last_step = "tools" => pc = "agent"
    /\ pc = "exit" => last_step = "end" /\ route = "end"

\* a turn that ran one code block has completed: two model invocations, one
\* code execution, four messages more than before, the last without code
C37_Witness ==
    /\ TurnCompleted
    /\ model_calls = 2
    /\ tool_calls = 1
    /\ Len(chat_history) = Len(pre.chat_history) + 4
    /\ Last(chat_history).content = R_FINAL
    /\ Contains(chat_history[Len(chat_history) - 2].content, T_PYFENCE)

\* the graph run of the turn has just ended with an exception, which left
\* user_sent_message
TurnRaised ==
    /\ pc = "idle"
    /\ outcome = "raised"
    /\ last_step \in {"agent", "agent_failed", "limit"}

\* C38: when the graph run of a turn ends with an exception (a failed model
\* call, the iteration ceiling, a route without a path), the stored chat
\* history, output_paths and intermediate_outputs of the session are what they
\* were before the call: the user entry, the tool records and the artifact
\* filenames of the failed turn are not kept.
C38_FailedTurnLeavesSessionAsItWas ==
    TurnRaised =>
        /\ chat_history = pre.chat_history
        /\ output_paths = pre.output_paths
        /\ intermediate_outputs = pre.intermediate_outputs
        /\ exc \in {"LLMError", "GraphRecursionError", "KeyError"}

\* the second turn of a session hit the ceiling after it had recorded code
\* executions and chart filenames in the graph state: the session holds what
\* the first turn left
C38_Witness ==
    /\ TurnRaised
    /\ exc = "GraphRecursionError"
    /\ pre.chat_history # <<>>
    /\ LogOf(state) # <<>>
    /\ Range(state.output_paths.html) \ Accumulated(output_paths, "html") # {}
    /\ Len(state.messages) > Len(chat_history) + 1
    /\ chat_history = pre.chat_history

\* the last call on the backend was process_query
Queried == g_ret.op = "process_query"

\* C39: process_query on a backend that is not initialized (never
\* initialized, initialization failed, or reset since) returns success false
\* with empty messages, output_paths and intermediate_outputs, without raising
\* and without changing a field of the backend; and process_query raises in no
\* state: a failure, before or after the user entry was recorded, is returned
\* as success false.
C39_ProcessQueryRefusesAndNeverRaises ==
    Queried =>
        /\ ~g_ret.raised
        /\ g_ret.error # <<>> => g_ret.value = FALSE
        /\ g_ret.value = FALSE => g_ret.error # <<>>
        /\ ~g_ret.before.is_initialized =>
              /\ g_ret.value = FALSE
              /\ g_ret.messages = <<>>
              /\ g_ret.output_paths = EmptyMap
              /\ g_ret.intermediate_outputs = <<>>
              /\ g_self = g_ret.before

\* process_query was called on a backend that was not initialized, after
\* other calls on it: it refused and the backend is as it was
C39_Witness ==
    /\ Queried
    /\ g_calls >= 3
    /\ ~g_ret.before.is_initialized
    /\ g_ret.value = FALSE
    /\ g_ret.error = <<"Backend not initialized">>
    /\ g_ret.messages = <<>>
    /\ g_self = g_ret.before

====
